---- MODULE Spec2Model ----
(***************************************************************************)
(* mmcli: the batch orchestration of conversions and downloads.            *)
(*                                                                         *)
(* The model follows src/app/tools/media_converter.py,                     *)
(* src/app/tools/media_downloader.py, src/app/tools/youtube_downloader.py, *)
(* src/app/utils/media_format.py, src/app/utils/command_manager.py and     *)
(* src/main.py.  The external collaborators (ffmpeg, pytubefix, the file   *)
(* system, the clock) are the environment: their answers are drawn from    *)
(* small sets.                                                             *)
(***************************************************************************)
EXTENDS Integers, Sequences, FiniteSets, TLC

(***************************************************************************)
(* Bounds of the model.                                                    *)
(***************************************************************************)
\* the largest number of files a glob pattern resolves to
MaxFiles == 3

\* the largest --max-workers value tried (0 and 1 are tried too, and the
\* configured default when the option is not given)
MaxWorkers == 2

(***************************************************************************)
(* The format registry (src/app/utils/media_format.py).                    *)
(***************************************************************************)
video_formats ==
  <<
    [alias |-> "mp4", format |-> "mp4"],
    [alias |-> "mkv", format |-> "matroska"],
    [alias |-> "avi", format |-> "avi"],
    [alias |-> "mov", format |-> "mov"],
    [alias |-> "flv", format |-> "flv"],
    [alias |-> "webm", format |-> "webm"],
    [alias |-> "mpeg", format |-> "mpeg"],
    [alias |-> "mpg", format |-> "mpeg"],
    [alias |-> "ts", format |-> "mpegts"],
    [alias |-> "m2ts", format |-> "mpegts"],
    [alias |-> "ogv", format |-> "ogg"],
    [alias |-> "3gp", format |-> "3gp"],
    [alias |-> "3g2", format |-> "3g2"],
    [alias |-> "vob", format |-> "vob"],
    [alias |-> "f4v", format |-> "f4v"],
    [alias |-> "wmv", format |-> "asf"],
    [alias |-> "rm", format |-> "rm"],
    [alias |-> "rmvb", format |-> "rm"]
  >>

audio_formats ==
  <<
    [alias |-> "mp3", format |-> "mp3"],
    [alias |-> "wav", format |-> "wav"],
    [alias |-> "flac", format |-> "flac"],
    [alias |-> "aac", format |-> "aac"],
    [alias |-> "m4a", format |-> "ipod"],
    [alias |-> "ogg", format |-> "ogg"],
    [alias |-> "oga", format |-> "ogg"],
    [alias |-> "opus", format |-> "ogg"],
    [alias |-> "wma", format |-> "asf"],
    [alias |-> "alac", format |-> "ipod"],
    [alias |-> "amr", format |-> "amr"],
    [alias |-> "ac3", format |-> "ac3"],
    [alias |-> "dts", format |-> "dts"],
    [alias |-> "eac3", format |-> "eac3"]
  >>

image_formats ==
  <<
    [alias |-> "jpg", format |-> "mjpeg"],
    [alias |-> "jpeg", format |-> "mjpeg"],
    [alias |-> "png", format |-> "png"],
    [alias |-> "webp", format |-> "webp"],
    [alias |-> "gif", format |-> "gif"],
    [alias |-> "bmp", format |-> "bmp"],
    [alias |-> "tif", format |-> "tiff"],
    [alias |-> "tiff", format |-> "tiff"],
    [alias |-> "ico", format |-> "ico"],
    [alias |-> "svg", format |-> "svg"],
    [alias |-> "heif", format |-> "heif"],
    [alias |-> "heic", format |-> "hevc"],
    [alias |-> "jp2", format |-> "jpeg2000"],
    [alias |-> "j2k", format |-> "jpeg2000"],
    [alias |-> "jxl", format |-> "jpegxl"]
  >>

subtitle_formats ==
  <<
    [alias |-> "srt", format |-> "srt"],
    [alias |-> "ass", format |-> "ass"],
    [alias |-> "ssa", format |-> "ass"],
    [alias |-> "vtt", format |-> "webvtt"],
    [alias |-> "sub", format |-> "microdvd"],
    [alias |-> "idx", format |-> "microdvd"],
    [alias |-> "mks", format |-> "matroska"]
  >>

all_formats == video_formats \o audio_formats \o image_formats \o subtitle_formats

\* get_format: the entries whose alias or format name equals the string
get_format(format, formats) ==
  SelectSeq(formats, LAMBDA f : f.alias = format \/ f.format = format)

Aliases == {all_formats[i].alias : i \in DOMAIN all_formats}

(***************************************************************************)
(* Values.  Python's None and a key that a dict does not have are two      *)
(* different things; both are kept apart from every path and every string. *)
(***************************************************************************)
None == [none |-> TRUE]

Absent == [absent |-> TRUE]

\* A path: directory, stem, extension and, for a converter output, the
\* timestamp of its name (0: the name has no timestamp).  norm says whether
\* the text of the path is already in pathlib's normal form.
MkPath(dir, stem, ts, ext, norm) ==
  [dir |-> dir, stem |-> stem, ts |-> ts, ext |-> ext, norm |-> norm]

\* pathlib.Path(text): the normalised path
Path(p) == [p EXCEPT !.norm = TRUE]

\* str(path): the text of a Path object
Str(p) == p

\* The i-th file of a directory listing: files 2k-1 and 2k have the same
\* stem and live in different directories.
InputFile(i) ==
  MkPath(IF i % 2 = 1 THEN "in" ELSE "in/sub", (i + 1) \div 2, 0, "mp4", TRUE)

(***************************************************************************)
(* State.                                                                  *)
(***************************************************************************)
VARIABLES
  entry,           \* how the run began: "cli" (main) or "api" (a call from Python)
  args,            \* the argparse namespace
  exit_code,       \* -1 while the process runs, else its exit status
  pc,              \* where the process is
  caller,          \* who called the converter: "main", "single", "playlist"
  input_files,     \* process_conversion_batch: its list of input Paths
  output_format,   \* ... its target alias
  output_dir,      \* ... the directory ensure_output_directory resolved
  max_concurrent,  \* ... its concurrency limit
  task,            \* per item: "pending", "running" or "finished"
  semaphore,       \* the value of asyncio.Semaphore(max_concurrent)
  enc,             \* per item: what the encoder call does ("ok", "fail", "raise")
  now,             \* the clock read by generate_output_filename
  taskResult,      \* per item: the value its task returned
  completed,       \* the items in the order their conversions finished
  results,         \* the list process_conversion_batch returns
  ffmpegCalls,     \* per item: how often ffmpeg was run for it
  printed,         \* what print_conversion_results wrote
  disk,            \* the media files that exist
  dirs,            \* the directories the process made sure exist
  config,          \* the download configuration (create_download_config)
  remote,          \* per video of the URL: what the remote media source does
  attempted,       \* the videos whose download was called, in call order
  dlResult,        \* what youtube_downloader returned
  outcome,         \* what the download function of media_downloader returned
  dlPrinted,       \* what print_download_summary wrote
  found            \* what get_format returned to a caller from Python

convVars ==
  <<input_files, output_format, output_dir, max_concurrent, task, semaphore,
    enc, now, taskResult, completed, results, ffmpegCalls, printed, disk, dirs>>

dlVars == <<config, remote, attempted, dlResult, outcome, dlPrinted>>

vars == <<entry, found, args, exit_code, pc, caller, convVars, dlVars>>

NoConfig == [none |-> TRUE]

NoResult == [kind |-> "none"]

NoOutcome == [kind |-> "none"]

NoSummary == [kind |-> "none"]

\* get_format was not called from Python
NotLookedUp == <<>>

(***************************************************************************)
(* The converter (src/app/tools/media_converter.py).                       *)
(***************************************************************************)
\* None and "no such key" for values that are otherwise strings
NoneS == "<None>"

AbsentS == "<absent>"

\* downloads.playlist.max_workers of the default configuration
MaxWorkersDefault == 3

\* str(e) of an exception that escapes convert_single_file_functional
ExcText == "cannot run the encoder"

\* the first k files of the listing
Listing(k) == [i \in 1..k |-> InputFile(i)]

\* A pattern is what the file system answers for it: whether it has a "*",
\* what glob(pattern) and glob("**/" + pattern) match, or, for a plain path,
\* the path if it exists.
\* files of resolve_file_paths, before its check
matched_files(input_pattern) ==
  IF input_pattern.star
    THEN IF input_pattern.direct # <<>>
           THEN [i \in DOMAIN input_pattern.direct |-> Path(input_pattern.direct[i])]
           ELSE [i \in DOMAIN input_pattern.recursive |-> Path(input_pattern.recursive[i])]
    ELSE [i \in DOMAIN input_pattern.direct |-> Path(input_pattern.direct[i])]

resolve_file_paths_returns_empty(input_pattern) ==
  [raised |-> FALSE, files |-> matched_files(input_pattern)]

\* resolve_file_paths: FileNotFoundError when nothing matched, else the files
resolve_file_paths(input_pattern) ==
  IF matched_files(input_pattern) = <<>>
    THEN [raised |-> TRUE, files |-> <<>>]
    ELSE [raised |-> FALSE, files |-> matched_files(input_pattern)]

\* ensure_output_directory: the given directory, else <cwd>/convert
ensure_output_directory(dir) == IF dir # NoneS THEN dir ELSE "cwd/convert"

create_output_path_over_input(input_file, fmt, dir, timestamp) == input_file

\* generate_output_filename and create_output_path:
\* <output_dir>/<stem>_<timestamp>.<output_format>
create_output_path(input_file, fmt, dir, timestamp) ==
  MkPath(dir, input_file.stem, timestamp, fmt, TRUE)

find_ffmpeg_format_by_name_too(fmt) ==
  LET format_matches == get_format(fmt, all_formats)
  IN  IF format_matches # <<>> THEN format_matches[1].format ELSE NoneS

\* find_ffmpeg_format: the encoder format of the first entry whose alias is
\* the string, None when no alias is
find_ffmpeg_format(fmt) ==
  LET format_matches == SelectSeq(all_formats, LAMBDA f : f.alias = fmt)
  IN  IF format_matches # <<>> THEN format_matches[1].format ELSE NoneS

create_conversion_config(input_file, fmt, dir, timestamp) ==
  [input_file |-> input_file,
   output_path |-> create_output_path(input_file, fmt, dir, timestamp),
   ffmpeg_format |-> find_ffmpeg_format(fmt),
   output_format |-> fmt]

\* convert_single_file_functional: the dict it returns, given the configuration
\* and what execute_ffmpeg_conversion answered
single_result(conf, success) ==
  [input_file |-> Str(conf.input_file),
   output_file |-> IF success THEN Str(conf.output_path) ELSE None,
   success |-> success,
   format |-> conf.output_format,
   error |-> AbsentS]

\* the dict convert_with_feedback (and the loop after gather) builds from an
\* exception
exception_result(input_file, fmt, text) ==
  [input_file |-> Str(input_file),
   output_file |-> None,
   success |-> FALSE,
   format |-> fmt,
   error |-> text]

RECURSIVE reduce_stats(_, _)
\* functools.reduce of the counting lambda over the results, from acc
reduce_stats(rs, acc) ==
  IF rs = <<>>
    THEN acc
    ELSE reduce_stats(Tail(rs),
           [total |-> acc.total + 1,
            success |-> acc.success + (IF Head(rs).success THEN 1 ELSE 0),
            failed |-> acc.failed + (IF Head(rs).success THEN 0 ELSE 1)])

calculate_stats_bad_seed(rs) ==
  reduce_stats(rs, [total |-> 0, success |-> 0, failed |-> 1])

calculate_conversion_stats(rs) ==
  reduce_stats(rs, [total |-> 0, success |-> 0, failed |-> 0])

\* the input_file of every result that is not a success, in list order
failed_files(rs) ==
  LET failedOnes == SelectSeq(rs, LAMBDA r : ~r.success)
  IN  [k \in 1..Len(failedOnes) |-> failedOnes[k].input_file]

\* print_conversion_results: the summary block, and the "Failed conversions"
\* block when the failure count is positive
print_conversion_results(rs, fmt, dir) ==
  LET stats == calculate_conversion_stats(rs)
  IN  [complete |-> TRUE,
       success |-> stats.success,
       failed |-> stats.failed,
       format |-> fmt,
       output_dir |-> dir,
       failed_header |-> stats.failed > 0,
       failed_listing |-> IF stats.failed > 0 THEN failed_files(rs) ELSE <<>>]

NothingPrinted ==
  [complete |-> FALSE, success |-> 0, failed |-> 0, format |-> NoneS,
   output_dir |-> NoneS, failed_header |-> FALSE, failed_listing |-> <<>>]

processed_results_successes_only(gathered) ==
  LET kept == SelectSeq(gathered, LAMBDA g : g.kind = "value" /\ g.value.success)
  IN  [i \in DOMAIN kept |-> kept[i].value]

\* the list built after asyncio.gather: a returned exception becomes a failed
\* result of the input at the same index, anything else is kept
processed_results(gathered) ==
  [i \in 1..Len(gathered) |->
     IF gathered[i].kind = "exception"
       THEN exception_result(input_files[i], output_format, gathered[i].text)
       ELSE gathered[i].value]

Returned(value) == [kind |-> "value", value |-> value]

NotReturned == [kind |-> "none"]

InFlight == {i \in DOMAIN task : task[i] = "running"}

(***************************************************************************)
(* process_conversion_batch.                                               *)
(***************************************************************************)
UseSequentialAlways(n, w) == TRUE

\* the test at the head of process_conversion_batch: the sequential loop is
\* taken for one file or a limit of at most 1
UseSequential(n, w) == n = 1 \/ w <= 1

\* convert_files_functional calls process_conversion_batch: the state at the
\* head of its loop, or right after its Semaphore and its tasks are created
EnterBatch(files, fmt, dir, w) ==
  /\ input_files' = files
  /\ output_format' = fmt
  /\ output_dir' = ensure_output_directory(dir)
  /\ dirs' = dirs \cup {ensure_output_directory(dir)}
  /\ max_concurrent' = w
  /\ task' = [i \in 1..Len(files) |-> "pending"]
  /\ enc' = [i \in 1..Len(files) |-> "unset"]
  /\ taskResult' = [i \in 1..Len(files) |-> NotReturned]
  /\ ffmpegCalls' = [i \in 1..Len(files) |-> 0]
  /\ completed' = <<>>
  /\ results' = <<>>
  /\ printed' = NothingPrinted
  /\ semaphore' = IF UseSequential(Len(files), w) THEN 0 ELSE w
  /\ pc' = IF UseSequential(Len(files), w) THEN "sequential" ELSE "gather"
  /\ UNCHANGED <<now, disk>>

\* what the encoder call of an item can do: run and succeed, run and fail
\* (ffmpeg's exception is caught inside _convert), or not start at all
\* (run_in_executor raises)
EncChoices ==
  IF find_ffmpeg_format(output_format) = NoneS
    THEN {"unused"}
    ELSE {"ok", "fail", "raise"}

\* convert_with_feedback(input_files[i]) from its call to its first suspension:
\* the configuration is built (the clock is read), an unsupported format and a
\* raising executor end the call at once, otherwise ffmpeg runs in the executor;
\* the clock may have ticked by the next reading of the batch, if there is one
StartConversion(i, e) ==
  LET conf == create_conversion_config(input_files[i], output_format, output_dir, now)
  IN  /\ enc' = [enc EXCEPT ![i] = e]
      /\ now' \in (IF \E j \in DOMAIN task : j # i /\ task[j] = "pending"
                     THEN {now, now + 1}
                     ELSE {now})
      /\ UNCHANGED <<disk, dirs>>
      /\ IF conf.ffmpeg_format = NoneS
           THEN /\ taskResult' = [taskResult EXCEPT ![i] = Returned(single_result(conf, FALSE))]
                /\ task' = [task EXCEPT ![i] = "finished"]
                /\ completed' = Append(completed, i)
                /\ UNCHANGED ffmpegCalls
           ELSE IF e = "raise"
             THEN /\ taskResult' = [taskResult EXCEPT ![i] =
                        Returned(exception_result(input_files[i], output_format, ExcText))]
                  /\ task' = [task EXCEPT ![i] = "finished"]
                  /\ completed' = Append(completed, i)
                  /\ UNCHANGED ffmpegCalls
             ELSE /\ taskResult' = [taskResult EXCEPT ![i] = [kind |-> "config", value |-> conf]]
                  /\ task' = [task EXCEPT ![i] = "running"]
                  /\ ffmpegCalls' = [ffmpegCalls EXCEPT ![i] = @ + 1]
                  /\ UNCHANGED completed

\* the executor call of item i ends: convert_single_file_functional returns
\* its dict and convert_with_feedback passes it on; running ffmpeg took time,
\* so the clock is past the timestamp of the item; a call that hangs does not
\* end
FinishConversion(i) ==
  /\ task[i] = "running"
  /\ enc[i] # "hang"
  /\ taskResult' = [taskResult EXCEPT ![i] =
        Returned(single_result(taskResult[i].value, enc[i] = "ok"))]
  /\ task' = [task EXCEPT ![i] = "finished"]
  /\ completed' = Append(completed, i)
  /\ now' = IF now > taskResult[i].value.output_path.ts THEN now ELSE now + 1
  /\ disk' = IF enc[i] = "ok" THEN disk \cup {taskResult[i].value.output_path} ELSE disk
  /\ UNCHANGED <<enc, ffmpegCalls, dirs>>

\* process_conversion_batch returns rs to convert_files_functional, which
\* prints the summary and returns
ReturnResults(rs) ==
  /\ results' = rs
  /\ printed' = print_conversion_results(results', output_format, output_dir)
  /\ pc' = "returned"

SeqAppendStopOnFailure(i) ==
  IF i = Len(input_files) \/ ~taskResult'[i].value.success
    THEN ReturnResults(Append(results, taskResult'[i].value))
    ELSE /\ results' = Append(results, taskResult'[i].value)
         /\ UNCHANGED <<pc, printed>>

SeqAppendRewritesFirst(i) ==
  IF i = Len(input_files)
    THEN ReturnResults([Append(results, taskResult'[i].value) EXCEPT
                          ![1] = taskResult'[i].value])
    ELSE /\ results' = [Append(results, taskResult'[i].value) EXCEPT
                          ![1] = taskResult'[i].value]
         /\ UNCHANGED <<pc, printed>>

\* the sequential loop: the result of item i is appended, and the list is
\* returned after the last one
SeqAppend(i) ==
  IF i = Len(input_files)
    THEN ReturnResults(Append(results, taskResult'[i].value))
    ELSE /\ results' = Append(results, taskResult'[i].value)
         /\ UNCHANGED <<pc, printed>>

\* sequential branch: the loop calls convert_with_feedback for the next file
SeqStart ==
  /\ pc = "sequential"
  /\ Len(results) < Len(input_files)
  /\ LET i == Len(results) + 1
     IN  /\ task[i] = "pending"
         /\ \E e \in EncChoices : StartConversion(i, e)
         /\ IF task'[i] = "finished"
              THEN SeqAppend(i)
              ELSE UNCHANGED <<results, pc, printed>>
  /\ UNCHANGED <<dlVars, entry, found, args, exit_code, caller, input_files, output_format, output_dir,
                 max_concurrent, semaphore>>

\* sequential branch: the awaited conversion ends and the loop goes on
SeqFinish ==
  /\ pc = "sequential"
  /\ \E i \in DOMAIN task :
       /\ FinishConversion(i)
       /\ SeqAppend(i)
  /\ UNCHANGED <<dlVars, entry, found, args, exit_code, caller, input_files, output_format, output_dir,
                 max_concurrent, semaphore>>

AcquireUnbounded(i) == task[i] = "pending"

AcquireWhenAllFree(i) == task[i] = "pending" /\ semaphore = max_concurrent

\* "async with semaphore": a task enters when the semaphore is positive
Acquire(i) == task[i] = "pending" /\ semaphore > 0

ConcStartKeepsSlotOfEndedCall ==
  /\ pc = "gather"
  /\ \E i \in DOMAIN task :
       /\ Acquire(i)
       /\ \E e \in EncChoices : StartConversion(i, e)
       /\ semaphore' = semaphore - 1
  /\ UNCHANGED <<dlVars, entry, found, args, exit_code, caller, input_files, output_format,
                 output_dir, max_concurrent, results, pc, printed>>

\* concurrent branch: a task gets the semaphore and calls convert_with_feedback;
\* a call that ends at once releases the semaphore in the same step
ConcStart ==
  /\ pc = "gather"
  /\ \E i \in DOMAIN task :
       /\ Acquire(i)
       /\ \E e \in EncChoices : StartConversion(i, e)
       /\ semaphore' = IF task'[i] = "finished" THEN semaphore ELSE semaphore - 1
  /\ UNCHANGED <<dlVars, entry, found, args, exit_code, caller, input_files, output_format, output_dir,
                 max_concurrent, results, pc, printed>>

\* concurrent branch: a conversion ends, its task returns and leaves the
\* "async with" block
ConcFinish ==
  /\ pc = "gather"
  /\ \E i \in DOMAIN task : FinishConversion(i)
  /\ semaphore' = semaphore + 1
  /\ UNCHANGED <<dlVars, entry, found, args, exit_code, caller, input_files, output_format, output_dir,
                 max_concurrent, results, pc, printed>>

\* the items whose encoder call never completes
Hung == {i \in DOMAIN enc : enc[i] = "hang"}

\* concurrent branch: a task gets the semaphore and calls convert_with_feedback,
\* and the ffmpeg run it starts in the executor never ends (one run of a batch
\* at most)
ConcHang ==
  /\ pc = "gather"
  /\ Hung = {}
  /\ "ok" \in EncChoices
  /\ \E i \in DOMAIN task :
       /\ Acquire(i)
       /\ StartConversion(i, "hang")
       /\ semaphore' = semaphore - 1
  /\ UNCHANGED <<dlVars, entry, found, args, exit_code, caller, input_files, output_format,
                 output_dir, max_concurrent, results, pc, printed>>

GatherInCompletionOrder == [k \in 1..Len(completed) |-> taskResult[completed[k]]]

\* asyncio.gather: the values of the tasks in the order the tasks were passed
Gather == [i \in 1..Len(input_files) |-> taskResult[i]]

GatherReturnAfterTimeout ==
  /\ pc = "gather"
  /\ \A i \in DOMAIN task \ Hung : task[i] = "finished"
  /\ ReturnResults([i \in 1..Len(input_files) |->
                      IF i \in Hung
                        THEN exception_result(input_files[i], output_format, "timeout")
                        ELSE taskResult[i].value])
  /\ UNCHANGED <<dlVars, entry, found, args, exit_code, caller, input_files, output_format,
                 output_dir, max_concurrent, task, semaphore, enc, now, taskResult,
                 completed, ffmpegCalls, disk, dirs>>

\* concurrent branch: every task is done, gather returns, the list is built
\* and returned
GatherReturn ==
  /\ pc = "gather"
  /\ \A i \in DOMAIN task : task[i] = "finished"
  /\ ReturnResults(processed_results(Gather))
  /\ UNCHANGED <<dlVars, entry, found, args, exit_code, caller, input_files, output_format, output_dir,
                 max_concurrent, task, semaphore, enc, now, taskResult, completed,
                 ffmpegCalls, disk, dirs>>

(***************************************************************************)
(* The command line (src/app/utils/command_manager.py, src/main.py) and    *)
(* convert.                                                                *)
(***************************************************************************)
\* the input patterns tried: a glob that matches k files directly, one that
\* matches only recursively, one that matches nothing, a plain path that
\* exists, a plain path that does not
Patterns ==
  {[star |-> TRUE, direct |-> Listing(k), recursive |-> <<>>] : k \in 1..MaxFiles}
  \cup {[star |-> TRUE, direct |-> <<>>, recursive |-> Listing(k)] : k \in 0..1}
  \cup {[star |-> FALSE, direct |-> Listing(k), recursive |-> <<>>] : k \in 0..1}

\* the --to values tried: an alias, an encoder format name that is no alias,
\* a string the registry does not know
ConvertTargets == {"mp3", "matroska", "xyz"}

ConvertArgs ==
  [command : {"convert"}, type : {NoneS}, url : {NoneS}, format : {NoneS},
   path : Patterns, to : ConvertTargets, output_dir : {NoneS, "out"},
   max_workers : {NoneS} \cup {"given"}, workers : 0..MaxWorkers]

\* validate_conversion_args: --max-workers, else the configured default
max_workers_of(a) ==
  IF a.max_workers = NoneS THEN MaxWorkersDefault ELSE a.workers

ParseAcceptsAnyTarget(a) == TRUE

\* argparse, choices=<the aliases of all_formats> for convert --to
ParseAccepts(a) == a.command = "convert" => a.to \in Aliases

\* command_manager(): parse_args; a value outside the choices ends the
\* process with status 2
ParseArgs ==
  /\ pc = "parse"
  /\ IF ParseAccepts(args)
       THEN pc' = args.command /\ UNCHANGED exit_code
       ELSE pc' = "exit" /\ exit_code' = 2
  /\ UNCHANGED <<entry, found, args, caller, convVars, dlVars>>

\* convert(args): the arguments are validated, the pattern is resolved, and
\* convert_files_functional is entered; any exception ends the process with
\* status 1
Convert ==
  /\ pc = "convert"
  /\ LET input_files_ == resolve_file_paths(args.path)
     IN  IF input_files_.raised
           THEN /\ pc' = "exit"
                /\ exit_code' = 1
                /\ UNCHANGED convVars
           ELSE /\ EnterBatch(input_files_.files, args.to, args.output_dir,
                              max_workers_of(args))
                /\ UNCHANGED exit_code
  /\ UNCHANGED <<entry, found, args, caller, dlVars>>

\* convert returns to _async_main, and main returns: status 0
MainReturn ==
  /\ pc = "returned"
  /\ caller = "main"
  /\ pc' = "exit"
  /\ exit_code' = 0
  /\ UNCHANGED <<entry, found, args, caller, convVars, dlVars>>

ConvInit ==
  /\ input_files = <<>>
  /\ output_format = NoneS
  /\ output_dir = NoneS
  /\ max_concurrent = 0
  /\ task = <<>>
  /\ semaphore = 0
  /\ enc = <<>>
  /\ now = 1
  /\ taskResult = <<>>
  /\ completed = <<>>
  /\ results = <<>>
  /\ ffmpegCalls = <<>>
  /\ printed = NothingPrinted

\* no download is going on
DlIdle ==
  /\ config = NoConfig
  /\ remote = <<>>
  /\ attempted = <<>>
  /\ dlResult = NoResult
  /\ outcome = NoOutcome
  /\ dlPrinted = NoSummary

(***************************************************************************)
(* The downloader (src/app/tools/media_downloader.py over                  *)
(* src/app/tools/youtube_downloader.py).                                   *)
(***************************************************************************)
\* the largest playlist tried
MaxVideos == 2

\* str(e) of the exceptions of a download
RemoteErrText == "video unavailable"

AwaitErrText == "object dict can't be used in 'await' expression"

KeywordErrText == "got an unexpected keyword argument 'max_concurrent'"

\* a raised ValueError, where a string is returned otherwise
ValueErrorS == "<ValueError>"

\* the containers the remote media source delivers for a download type
DownloadExts(type) == IF type = "video" THEN {"mp4", "webm"} ELSE {"m4a", "webm"}

\* what the remote media source does for one video: deliver a file, return
\* no file, or raise
RemoteChoices(type, i) ==
  {[kind |-> "file", ext |-> e, title |-> i] : e \in DownloadExts(type)}
  \cup {[kind |-> "none", ext |-> NoneS, title |-> i],
        [kind |-> "raise", ext |-> NoneS, title |-> i]}

\* is_youtube_url, is_playlist_url: a URL is what the two substring tests
\* answer for it
validate_youtube_url(url) == [is_valid |-> url.youtube, is_playlist |-> url.list]

get_format_or_default(format_arg, format_map, default) ==
  IF format_arg = NoneS
    THEN default
    ELSE LET formats == get_format(format_arg, format_map)
         IN  IF formats = <<>> THEN ValueErrorS ELSE formats[1].format

\* downloads.video.format of the default configuration is "mp4"
get_video_format_or_default(format_arg) ==
  get_format_or_default(format_arg, video_formats, "mp4")

\* downloads.audio.format of the default configuration is "m4a"
get_audio_format_or_default(format_arg) ==
  IF format_arg = NoneS
    THEN NoneS
    ELSE get_format_or_default(format_arg, audio_formats, "m4a")

\* str.lower() of the extensions and format names of the model
Lower(str) ==
  CASE str = "MP4" -> "mp4"
    [] str = "WEBM" -> "webm"
    [] OTHER -> str

extract_file_extension(filepath) == Lower(filepath.ext)

should_convert_format(current_ext, target_format) ==
  IF target_format = NoneS
    THEN FALSE
    ELSE Lower(current_ext) # Lower(target_format)

\* create_download_config, without the directory it creates; normal says
\* whether the text of output_path is in pathlib's normal form (the configured
\* downloads.output_dir is joined to the working directory as it is written)
create_download_config(a, media_type) ==
  [url |-> a.url,
   output_dir |-> "cwd/downloads",
   output_format |-> IF media_type = "video"
                       THEN get_video_format_or_default(a.format)
                       ELSE get_audio_format_or_default(a.format),
   output_path |-> IF media_type = "video"
                     THEN "cwd/downloads/videos"
                     ELSE "cwd/downloads/audios",
   resolution |-> NoneS,
   normal |-> TRUE]

\* create_playlist_config: downloads.playlist.create_subfolders is true by
\* default, the folder is named after the playlist
create_playlist_config(a, media_type) ==
  [create_download_config(a, media_type) EXCEPT
     !.output_path = IF media_type = "video"
                       THEN "cwd/downloads/playlist/videos/title"
                       ELSE "cwd/downloads/playlist/audios/title"]

\* the dict of youtube_downloader.download_single_video / _audio
yt_result(file, title) ==
  [success |-> file # None,
   file_path |-> file,
   metadata |-> [title |-> title, error |-> AbsentS]]

\* the three dicts a download of media_downloader returns
dl_failure(result, conf) ==
  [keys |-> {"success", "title", "path", "format", "converted", "error"},
   success |-> FALSE,
   title |-> result.metadata.title,
   path |-> conf.output_path,
   format |-> IF conf.output_format # NoneS THEN conf.output_format ELSE "original",
   converted |-> FALSE,
   file_path |-> Absent,
   error |-> IF result.metadata.error # AbsentS
               THEN result.metadata.error ELSE "Download failed"]

dl_success(result, conf, final_file, was_converted) ==
  [keys |-> {"success", "title", "path", "format", "converted", "file_path"},
   success |-> TRUE,
   title |-> result.metadata.title,
   path |-> conf.output_path,
   format |-> IF conf.output_format # NoneS
                THEN conf.output_format ELSE extract_file_extension(final_file),
   converted |-> was_converted,
   file_path |-> final_file,
   error |-> AbsentS]

dl_exception(text, conf) ==
  [keys |-> {"success", "error", "path", "format"},
   success |-> FALSE,
   title |-> 0,
   path |-> conf.output_path,
   format |-> conf.output_format,
   converted |-> FALSE,
   file_path |-> Absent,
   error |-> text]

Dict(value) == [kind |-> "dict", items |-> <<value>>]

List(items) == [kind |-> "list", items |-> items]

\* calculate_success_stats: the same reduce as calculate_conversion_stats
calculate_success_stats(rs) ==
  reduce_stats(rs, [total |-> 0, success |-> 0, failed |-> 0])

\* print_download_summary: the counts and the location for a list, "Done"
\* for anything else; no line names an item
print_download_summary(value) ==
  IF value.kind = "list"
    THEN LET stats == calculate_success_stats(value.items)
         IN  [kind |-> "list",
              total |-> stats.total,
              success |-> stats.success,
              failed |-> stats.failed,
              saved_to |-> IF value.items # <<>> THEN value.items[1].path ELSE "Unknown",
              failed_listing |-> <<>>]
    ELSE [kind |-> "done", total |-> 0, success |-> 0, failed |-> 0,
          saved_to |-> NoneS, failed_listing |-> <<>>]

\* stream.download(output_path): <output_path>/<title>.<ext>, or None
downloaded_file(r, conf, norm) ==
  IF r.kind = "file" THEN MkPath(conf.output_path, r.title, 0, r.ext, norm) ELSE None

\* the dict a playlist loop appends for a video whose download raised
yt_error_result(title, text) ==
  [success |-> FALSE,
   file_path |-> None,
   metadata |-> [title |-> title, error |-> text]]

\* what the loop of youtube_downloader.download_playlist_videos / _audios
\* appends for one video
playlist_entry(r, conf, norm) ==
  IF r.kind = "raise"
    THEN yt_error_result(r.title, RemoteErrText)
    ELSE yt_result(downloaded_file(r, conf, norm), r.title)

collect_downloaded_files(rs) ==
  LET kept == SelectSeq(rs, LAMBDA r : r.success /\ r.file_path # None)
  IN  [i \in DOMAIN kept |-> kept[i].file_path]

files_to_convert_all(downloaded_files, target_format) == downloaded_files

\* the files_to_convert of batch_convert_playlist_files
files_to_convert(downloaded_files, target_format) ==
  SelectSeq(downloaded_files,
            LAMBDA f : should_convert_format(extract_file_extension(f), target_format))

needs_conversion(rs, conf) ==
  /\ conf.output_format # NoneS
  /\ \E i \in DOMAIN collect_downloaded_files(rs) :
       should_convert_format(extract_file_extension(collect_downloaded_files(rs)[i]),
                             conf.output_format)

\* conversion_map.get(file_path): the dict comprehension keeps the last
\* result of a key
conversion_map_get(conversion_results, file_path) ==
  LET hits == {i \in DOMAIN conversion_results :
                 conversion_results[i].input_file = file_path}
  IN  IF hits = {}
        THEN None
        ELSE conversion_results[CHOOSE i \in hits : \A j \in hits : j <= i]

playlist_item_trusts_conversion(result, conf, conversion_results) ==
  IF ~result.success
    THEN dl_failure(result, conf)
    ELSE LET conversion_result == conversion_map_get(conversion_results, result.file_path)
             was_converted == conversion_result # None
         IN  dl_success(result, conf,
                        IF was_converted THEN conversion_result.output_file
                                         ELSE result.file_path,
                        was_converted)

\* one turn of the loop at the end of process_playlist_results
playlist_item(result, conf, conversion_results) ==
  IF ~result.success
    THEN dl_failure(result, conf)
    ELSE LET conversion_result == conversion_map_get(conversion_results, result.file_path)
             was_converted == conversion_result # None /\ conversion_result.success
         IN  dl_success(result, conf,
                        IF was_converted THEN conversion_result.output_file
                                         ELSE result.file_path,
                        was_converted)

processed_playlist(rs, conf, conversion_results) ==
  [i \in DOMAIN rs |-> playlist_item(rs[i], conf, conversion_results)]

\* the argument pattern of a path given literally
LiteralPattern(file) ==
  [star |-> FALSE,
   direct |-> IF file \in disk THEN <<file>> ELSE <<>>,
   recursive |-> <<>>]

NoPattern == [star |-> FALSE, direct |-> <<>>, recursive |-> <<>>]

\* A URL is its site and what the substring tests answer for it: youtube says
\* whether "youtube.com" or "youtu.be" occurs in it, list whether "list=" does.
\* A URL of YouTube has one of the two; a URL of another site may have one too
\* (in its path or its query).
Urls ==
  {u \in [site : {"youtube", "other"}, youtube : BOOLEAN, list : BOOLEAN] :
     u.site = "youtube" => u.youtube}

\* the --format values tried: none, aliases of the video and the audio table,
\* of each table one whose encoder name differs from it (mkv: matroska, m4a:
\* ipod), a string the registry does not know
DownloadFormats == {NoneS, "mp4", "mkv", "mp3", "m4a", "xyz"}

DownloadArgs ==
  [command : {"download"}, type : {"video", "audio"}, url : Urls,
   format : DownloadFormats, path : {NoPattern}, to : {NoneS},
   output_dir : {NoneS}, max_workers : {NoneS}, workers : {0}]

PropagateException(text) ==
  /\ pc' = "exit"
  /\ exit_code' = 1
  /\ UNCHANGED outcome

\* the except clause of download_single_video / _audio: the exception becomes
\* the returned dict
CatchException(text) ==
  /\ outcome' = Dict(dl_exception(text, config))
  /\ pc' = "dl_done"
  /\ UNCHANGED exit_code

\* download(args) up to the executor: the URL is validated and the
\* configuration is built; a ValueError of either ends the process with
\* status 1
Download ==
  /\ pc = "download"
  /\ LET url_validation == validate_youtube_url(args.url)
         conf == IF url_validation.is_playlist
                   THEN create_playlist_config(args, args.type)
                   ELSE create_download_config(args, args.type)
     IN  IF ~url_validation.is_valid \/ conf.output_format = ValueErrorS
           THEN /\ pc' = "exit"
                /\ exit_code' = 1
                /\ UNCHANGED <<config, dirs>>
           ELSE /\ config' = conf
                /\ dirs' = dirs \cup {conf.output_path}
                /\ pc' = IF url_validation.is_playlist THEN "dl_playlist" ELSE "dl_single"
                /\ UNCHANGED exit_code
  /\ UNCHANGED <<entry, found, args, caller, remote, attempted, dlResult, outcome, dlPrinted,
                 input_files, output_format, output_dir, max_concurrent, task,
                 semaphore, enc, now, taskResult, completed, results, ffmpegCalls,
                 printed, disk>>

\* download_single_video / _audio of media_downloader: the function of
\* youtube_downloader runs to its end (it is not a coroutine), then its dict
\* is awaited, which raises TypeError
DownloadSingle ==
  /\ pc = "dl_single"
  /\ attempted' = [attempted EXCEPT ![1] = TRUE]
  /\ IF remote[1].kind = "raise"
       THEN /\ CatchException(RemoteErrText)
            /\ UNCHANGED disk
       ELSE /\ CatchException(AwaitErrText)
            /\ disk' = disk \cup ({downloaded_file(remote[1], config, TRUE)} \ {None})
  /\ UNCHANGED <<entry, found, args, caller, config, remote, dlResult, dlPrinted,
                 input_files, output_format, output_dir, max_concurrent, task,
                 semaphore, enc, now, taskResult, completed, results, ffmpegCalls,
                 printed, dirs>>

\* download_playlist_videos / _audios of media_downloader: the call passes
\* max_concurrent, which the function of youtube_downloader does not take
DownloadPlaylist ==
  /\ pc = "dl_playlist"
  /\ outcome' = List(<<dl_exception(KeywordErrText, config)>>)
  /\ pc' = "dl_done"
  /\ UNCHANGED <<entry, found, args, exit_code, caller, config, remote, attempted, dlResult,
                 dlPrinted, convVars>>

\* process_single_download_result up to the conversion: a failed download and
\* a file that needs no conversion are answered at once; otherwise
\* convert_if_needed rewrites args and calls media_converter.convert
ProcessSingle ==
  /\ pc = "post_single"
  /\ LET result == dlResult.items[1]
     IN  IF ~result.success
           THEN /\ outcome' = Dict(dl_failure(result, config))
                /\ pc' = "dl_done"
                /\ UNCHANGED <<args, caller>>
           ELSE IF should_convert_format(extract_file_extension(result.file_path),
                                         config.output_format)
             THEN /\ args' = [args EXCEPT !.path = LiteralPattern(result.file_path),
                                          !.to = config.output_format,
                                          !.output_dir = result.file_path.dir]
                  /\ caller' = "single"
                  /\ pc' = "convert"
                  /\ UNCHANGED outcome
             ELSE /\ outcome' = Dict(dl_success(result, config, result.file_path, FALSE))
                  /\ pc' = "dl_done"
                  /\ UNCHANGED <<args, caller>>
  /\ UNCHANGED <<entry, found, exit_code, config, remote, attempted, dlResult, dlPrinted,
                 convVars>>

\* media_converter.convert has returned to convert_if_needed: the download is
\* removed when the conversion succeeded, and process_single_download_result
\* builds its dict
ConvertIfNeededReturn ==
  /\ pc = "returned"
  /\ caller = "single"
  /\ LET result == dlResult.items[1]
         converted == results # <<>> /\ results[1].success
         converted_file == IF converted THEN results[1].output_file ELSE result.file_path
     IN  /\ disk' = IF converted THEN disk \ {result.file_path} ELSE disk
         /\ outcome' = Dict(dl_success(result, config, converted_file,
                                       converted_file # result.file_path))
  /\ pc' = "dl_done"
  /\ UNCHANGED <<entry, found, args, exit_code, caller, config, remote, attempted, dlResult,
                 dlPrinted, input_files, output_format, output_dir, max_concurrent,
                 task, semaphore, enc, now, taskResult, completed, results,
                 ffmpegCalls, printed, dirs>>

\* process_playlist_results up to the conversion: without a file to convert
\* the list is built at once; otherwise batch_convert_playlist_files calls
\* convert_files_functional with the configured number of workers
ProcessPlaylist ==
  /\ pc = "post_playlist"
  /\ IF needs_conversion(dlResult.items, config)
       THEN /\ EnterBatch([i \in DOMAIN files_to_convert(collect_downloaded_files(dlResult.items),
                                                         config.output_format) |->
                             Path(files_to_convert(collect_downloaded_files(dlResult.items),
                                                   config.output_format)[i])],
                          config.output_format, NoneS, MaxWorkersDefault)
            /\ caller' = "playlist"
            /\ UNCHANGED outcome
       ELSE /\ outcome' = List(processed_playlist(dlResult.items, config, <<>>))
            /\ pc' = "dl_done"
            /\ UNCHANGED <<caller, convVars>>
  /\ UNCHANGED <<entry, found, args, exit_code, config, remote, attempted, dlResult, dlPrinted>>

PlaylistConvertReturnAgain ==
  /\ pc = "returned"
  /\ caller = "playlist"
  /\ pc' = "post_playlist"
  /\ UNCHANGED <<entry, found, args, exit_code, caller, convVars, dlVars>>

removed_regardless(files, conversion_results) ==
  {files[i] : i \in DOMAIN files}

\* the clean-up loop of batch_convert_playlist_files: the i-th file is removed
\* when the i-th result reports success
removed_after_conversion(files, conversion_results) ==
  {files[i] : i \in {j \in DOMAIN conversion_results : conversion_results[j].success}}

\* convert_files_functional has returned to batch_convert_playlist_files: the
\* downloads whose conversion succeeded are removed, and
\* process_playlist_results builds its list
PlaylistConvertReturn ==
  /\ pc = "returned"
  /\ caller = "playlist"
  /\ LET files == files_to_convert(collect_downloaded_files(dlResult.items),
                                   config.output_format)
     IN  disk' = disk \ removed_after_conversion(files, results)
  /\ outcome' = List(processed_playlist(dlResult.items, config, results))
  /\ pc' = "dl_done"
  /\ UNCHANGED <<entry, found, args, exit_code, caller, config, remote, attempted, dlResult,
                 dlPrinted, input_files, output_format, output_dir, max_concurrent,
                 task, semaphore, enc, now, taskResult, completed, results,
                 ffmpegCalls, printed, dirs>>

\* the executor has returned to download(): the summary is printed, and main
\* returns: status 0
DownloadReturn ==
  /\ pc = "dl_done"
  /\ entry = "cli"
  /\ dlPrinted' = print_download_summary(outcome)
  /\ pc' = "exit"
  /\ exit_code' = 0
  /\ UNCHANGED <<entry, found, args, caller, config, remote, attempted, dlResult, outcome,
                 convVars>>

\* the remote behaviours of n videos
RemoteSeqs(type, n) ==
  {r \in [1..n -> UNION {RemoteChoices(type, i) : i \in 1..n}] :
     \A i \in 1..n : r[i].title = i}

(***************************************************************************)
(* The playlist functions of youtube_downloader, called from Python.        *)
(***************************************************************************)
\* what the playlist functions leave alone
ytUnchanged ==
  <<entry, found, args, exit_code, caller, config, remote, outcome, dlPrinted, input_files,
    output_format, output_dir, max_concurrent, task, semaphore, enc, now, taskResult,
    completed, results, ffmpegCalls, printed, dirs>>

\* the videos whose dict is in the list
Recorded == {dlResult.items[k].metadata.title : k \in DOMAIN dlResult.items}

LoopFinishedAtFirstError ==
  \/ Len(dlResult.items) = Len(remote)
  \/ \E k \in DOMAIN dlResult.items : dlResult.items[k].metadata.error # AbsentS

\* the for loop over playlist.videos is through
LoopFinished == Len(dlResult.items) = Len(remote)

\* download_playlist_videos / _audios: one turn of the loop; the download of
\* the next video runs inside try, and its dict, or the dict built from its
\* exception, is appended
YtPlaylistStep ==
  /\ pc = "yt_playlist"
  /\ ~LoopFinished
  /\ LET i == Len(dlResult.items) + 1
     IN  /\ attempted' = [attempted EXCEPT ![i] = TRUE]
         /\ dlResult' = List(Append(dlResult.items,
                                    playlist_entry(remote[i], config, config.normal)))
         /\ disk' = disk \cup ({downloaded_file(remote[i], config, config.normal)} \ {None})
  /\ UNCHANGED pc
  /\ UNCHANGED ytUnchanged

\* download_playlist_videos / _audios: the loop is through and the list is
\* returned
YtPlaylistReturn ==
  /\ pc = "yt_playlist"
  /\ LoopFinished
  /\ pc' = "yt_done"
  /\ UNCHANGED <<attempted, dlResult, disk>>
  /\ UNCHANGED ytUnchanged

\* max_workers of download_playlist_videos_parallel / _audios_parallel
ParallelWorkersDefault == 3

\* yt.watch_url of the i-th video: a value that is the title of no video
watch_url(i) == 0 - i

\* task_index_map.get(key, 999) for a playlist of n videos: the map goes from
\* the watch URL of a video to its index
task_index_map_get(n, key) ==
  IF \E i \in 1..n : watch_url(i) = key
    THEN (CHOOSE i \in 1..n : watch_url(i) = key) - 1
    ELSE 999

\* the key results.sort is given: the map is asked for the title
sort_key(n, r) == task_index_map_get(n, r.metadata.title)

\* list.sort(key=...) with the key of sort_key: ascending, and stable
sorted_results(rs, n) ==
  LET perm == CHOOSE p \in [DOMAIN rs -> DOMAIN rs] :
                \A a, b \in DOMAIN rs :
                  a < b => \/ sort_key(n, rs[p[a]]) < sort_key(n, rs[p[b]])
                           \/ /\ sort_key(n, rs[p[a]]) = sort_key(n, rs[p[b]])
                              /\ p[a] < p[b]
  IN  [a \in DOMAIN rs |-> rs[perm[a]]]

\* the worker threads that are in a download
Downloading == {i \in DOMAIN remote : attempted[i] /\ i \notin Recorded}

\* a thread of the pool takes the next submitted task
\* (download_single_video_worker / _audio_worker starts)
WorkerStart ==
  /\ pc = "yt_parallel"
  /\ Cardinality(Downloading) < ParallelWorkersDefault
  /\ \E i \in DOMAIN remote :
       /\ ~attempted[i]
       /\ \A j \in 1..(i - 1) : attempted[j]
       /\ attempted' = [attempted EXCEPT ![i] = TRUE]
  /\ UNCHANGED <<pc, dlResult, disk>>
  /\ UNCHANGED ytUnchanged

\* a worker returns its dict (or the dict built from its exception), and
\* as_completed hands it to the loop that appends it
WorkerFinish ==
  /\ pc = "yt_parallel"
  /\ \E i \in Downloading :
       /\ dlResult' = List(Append(dlResult.items,
                                  playlist_entry(remote[i], config, config.normal)))
       /\ disk' = disk \cup ({downloaded_file(remote[i], config, config.normal)} \ {None})
  /\ UNCHANGED <<pc, attempted>>
  /\ UNCHANGED ytUnchanged

\* every future is through: the list is sorted and returned
YtParallelReturn ==
  /\ pc = "yt_parallel"
  /\ Len(dlResult.items) = Len(remote)
  /\ dlResult' = List(sorted_results(dlResult.items, Len(remote)))
  /\ pc' = "yt_parallel_done"
  /\ UNCHANGED <<attempted, disk>>
  /\ UNCHANGED ytUnchanged

\* a call of download_playlist_videos / _audios, or of their parallel
\* variants, of youtube_downloader for a playlist of 0..MaxVideos videos
YtPlaylistInit ==
  /\ args \in {a \in DownloadArgs :
                 /\ a.url = [site |-> "youtube", youtube |-> TRUE, list |-> TRUE]
                 /\ a.format = NoneS}
  /\ entry = "api"
  /\ caller = "main"
  /\ pc \in {"yt_playlist", "yt_parallel"}
  /\ exit_code = -1
  /\ ConvInit
  /\ found = NotLookedUp
  /\ config = create_playlist_config(args, args.type)
  /\ remote \in UNION {RemoteSeqs(args.type, n) : n \in 0..MaxVideos}
  /\ attempted = [i \in DOMAIN remote |-> FALSE]
  /\ dlResult = List(<<>>)
  /\ disk = {}
  /\ dirs = {config.output_path}
  /\ outcome = NoOutcome
  /\ dlPrinted = NoSummary

(***************************************************************************)
(* get_format, called from Python (src/app/utils/media_format.py).         *)
(***************************************************************************)
FormatNames == {all_formats[i].format : i \in DOMAIN all_formats}

\* the strings looked up: every alias, every encoder format name, aliases and
\* format names in another case, a string of no entry, the empty string
LookupStrings ==
  Aliases \cup FormatNames \cup {"MP4", "Mkv", "OGG", "MATROSKA", "nonexistent", ""}

\* the formats argument: left out (all_formats), or one of the four tables
LookupTables == {NoneS, "video", "audio", "image", "subtitle"}

formats_argument(table) ==
  CASE table = "video" -> video_formats
    [] table = "audio" -> audio_formats
    [] table = "image" -> image_formats
    [] table = "subtitle" -> subtitle_formats
    [] OTHER -> all_formats

LookupArgs ==
  [command : {"get_format"}, type : LookupTables, url : {NoneS},
   format : LookupStrings, path : {NoPattern}, to : {NoneS},
   output_dir : {NoneS}, max_workers : {NoneS}, workers : {0}]

\* get_format(format, formats) is called and returns its list
GetFormat ==
  /\ pc = "get_format"
  /\ found' = get_format(args.format, formats_argument(args.type))
  /\ pc' = "looked_up"
  /\ UNCHANGED <<entry, args, exit_code, caller, convVars, dlVars>>

\* a call of get_format from Python
LookupInit ==
  /\ args \in LookupArgs
  /\ entry = "api"
  /\ caller = "main"
  /\ pc = "get_format"
  /\ exit_code = -1
  /\ ConvInit
  /\ found = NotLookedUp
  /\ disk = {}
  /\ dirs = {}
  /\ DlIdle

LookupNext == GetFormat

LookupSpec == LookupInit /\ [][LookupNext]_vars

\* a run of "mmcli convert ...", or a call of convert(args) from Python; the
\* call from Python is tried with the targets argparse refuses: with an alias
\* it goes on from convert exactly as the run of the command does
ConvertInit ==
  /\ args \in {a \in ConvertArgs : a.max_workers = NoneS => a.workers = 0}
  /\ entry \in (IF args.to \in Aliases THEN {"cli"} ELSE {"cli", "api"})
  /\ caller = "main"
  /\ pc = (IF entry = "cli" THEN "parse" ELSE "convert")
  /\ exit_code = -1
  /\ ConvInit
  /\ found = NotLookedUp
  /\ disk = {InputFile(i) : i \in 1..MaxFiles}
  /\ dirs = {}
  /\ DlIdle

\* a run of the download command
DownloadInit ==
  /\ args \in DownloadArgs
  /\ entry = "cli"
  /\ caller = "main"
  /\ pc = "parse"
  /\ exit_code = -1
  /\ ConvInit
  /\ found = NotLookedUp
  /\ disk = {}
  /\ dirs = {}
  /\ config = NoConfig
  /\ remote \in (IF args.url.list
                   THEN UNION {RemoteSeqs(args.type, n) : n \in 1..MaxVideos}
                   ELSE RemoteSeqs(args.type, 1))
  /\ args.url.site # "youtube" => \A i \in DOMAIN remote : remote[i].kind = "raise"
  /\ attempted = [i \in DOMAIN remote |-> FALSE]
  /\ dlResult = NoResult
  /\ outcome = NoOutcome
  /\ dlPrinted = NoSummary

\* a call of process_single_download_result(result, config) with the dict of
\* a single download that has run; the file it names is on the disk, or is
\* not there (any more)
ProcessSingleInit ==
  /\ args \in {a \in DownloadArgs :
                 /\ a.url = [site |-> "youtube", youtube |-> TRUE, list |-> FALSE]
                 /\ create_download_config(a, a.type).output_format # ValueErrorS}
  /\ entry = "api"
  /\ caller = "main"
  /\ pc = "post_single"
  /\ exit_code = -1
  /\ ConvInit
  /\ found = NotLookedUp
  /\ config = create_download_config(args, args.type)
  /\ remote \in {r \in RemoteSeqs(args.type, 1) : r[1].kind # "raise"}
  /\ attempted = <<TRUE>>
  /\ dlResult = Dict(yt_result(downloaded_file(remote[1], config, TRUE), 1))
  /\ disk \in {{downloaded_file(remote[1], config, TRUE)} \ {None}, {}}
  /\ dirs = {config.output_path}
  /\ outcome = NoOutcome
  /\ dlPrinted = NoSummary

\* a call of process_playlist_results(results, config) with the list of a
\* playlist download that has run
ProcessPlaylistInit ==
  /\ args \in {a \in DownloadArgs :
                 /\ a.url = [site |-> "youtube", youtube |-> TRUE, list |-> TRUE]
                 /\ create_playlist_config(a, a.type).output_format # ValueErrorS}
  /\ entry = "api"
  /\ caller = "main"
  /\ pc = "post_playlist"
  /\ exit_code = -1
  /\ ConvInit
  /\ found = NotLookedUp
  /\ config \in {[create_playlist_config(args, args.type) EXCEPT !.normal = n] :
                   n \in BOOLEAN}
  /\ remote \in UNION {RemoteSeqs(args.type, n) : n \in 1..MaxVideos}
  /\ attempted = [i \in DOMAIN remote |-> TRUE]
  /\ dlResult = List([i \in DOMAIN remote |-> playlist_entry(remote[i], config, config.normal)])
  /\ disk = {downloaded_file(remote[i], config, config.normal) : i \in DOMAIN remote} \ {None}
  /\ dirs = {config.output_path}
  /\ outcome = NoOutcome
  /\ dlPrinted = NoSummary

(***************************************************************************)
(* A conversion of files that exist, under the scheduling of the event     *)
(* loop.                                                                   *)
(***************************************************************************)
\* "mmcli convert" is run with a known alias, or convert(args) is called from
\* Python with an unknown one, for a pattern that matches and with max_workers
\* given
BatchInit ==
  /\ ConvertInit
  /\ \/ entry = "cli" /\ args.to = "mp3"
     \/ entry = "api" /\ args.to = "xyz"
  /\ args.path.star
  /\ args.path.direct # <<>>
  /\ args.output_dir = NoneS
  /\ args.max_workers = "given"

\* the steps up to the return of convert_files_functional
BatchNext ==
  \/ ParseArgs
  \/ Convert
  \/ SeqStart
  \/ SeqFinish
  \/ ConcStart
  \/ ConcFinish
  \/ GatherReturn

\* main runs on, and the event loop runs every callback that is ready: a step
\* that can be taken is taken.
LoopFairness ==
  /\ WF_vars(ParseArgs)
  /\ WF_vars(Convert)
  /\ WF_vars(SeqStart)
  /\ WF_vars(ConcStart)
  /\ WF_vars(GatherReturn)

\* Every ffmpeg run that can end does end.
EncoderFairness ==
  /\ WF_vars(SeqFinish)
  /\ WF_vars(ConcFinish)

\* the conversion with every encoder call returning or raising in the end
FairSpec == BatchInit /\ [][BatchNext]_vars /\ LoopFairness /\ EncoderFairness

\* the steps when an ffmpeg run of the semaphore branch may hang
StuckNext ==
  \/ BatchNext
  \/ ConcHang

\* the conversion with one encoder call that may never complete
StuckSpec == BatchInit /\ [][StuckNext]_vars /\ LoopFairness /\ EncoderFairness

Init ==
  \/ ConvertInit
  \/ DownloadInit
  \/ ProcessSingleInit
  \/ ProcessPlaylistInit
  \/ YtPlaylistInit

Next ==
  \/ ParseArgs
  \/ Convert
  \/ SeqStart
  \/ SeqFinish
  \/ ConcStart
  \/ ConcFinish
  \/ GatherReturn
  \/ MainReturn
  \/ Download
  \/ DownloadSingle
  \/ DownloadPlaylist
  \/ ProcessSingle
  \/ ConvertIfNeededReturn
  \/ ProcessPlaylist
  \/ PlaylistConvertReturn
  \/ DownloadReturn
  \/ YtPlaylistStep
  \/ YtPlaylistReturn
  \/ WorkerStart
  \/ WorkerFinish
  \/ YtParallelReturn

Spec == Init /\ [][Next]_vars

(***************************************************************************)
(* Claims about the conversion batch.                                      *)
(***************************************************************************)
\* process_conversion_batch has returned its list (and the summary is printed)
BatchReturned == printed.complete

\* C1: for any N input files and any max_concurrent > 1, the list returned by
\* process_conversion_batch has length N and its i-th element has input_file
\* equal to input_files[i], whatever the order in which the conversions ended.
C1_OrderPreserved ==
  (BatchReturned /\ max_concurrent > 1) =>
    /\ Len(results) = Len(input_files)
    /\ \A i \in DOMAIN results : results[i].input_file = Str(input_files[i])

\* C1 witness: three files, a limit above 1, and the conversions ended in an
\* order that is not the input order.
C1_Witness ==
  /\ BatchReturned
  /\ max_concurrent > 1
  /\ Len(input_files) = 3
  /\ completed = <<2, 3, 1>>
  /\ \A i \in DOMAIN results : results[i].success

\* C2: the number of conversions in flight is at most max_concurrent when
\* N > 1 and max_concurrent > 1, and at most 1 otherwise; in the latter case
\* the files are converted in input order, file i+1 starting only after the
\* result of file i is recorded.
C2_BoundedInFlight ==
  /\ Cardinality(InFlight) <=
       (IF Len(input_files) > 1 /\ max_concurrent > 1 THEN max_concurrent ELSE 1)
  /\ (Len(input_files) <= 1 \/ max_concurrent <= 1) =>
       \A i \in DOMAIN task :
         task[i] # "pending" =>
           /\ Len(results) >= i - 1
           /\ \A j \in 1..(i - 1) : task[j] = "finished"

\* C2 witness: the concurrent branch with every slot taken while a file waits.
C2_Witness ==
  /\ pc = "gather"
  /\ max_concurrent = 2
  /\ Cardinality(InFlight) = max_concurrent
  /\ \E i \in DOMAIN task : task[i] = "pending"

\* C2 second case: the sequential branch, several files, the second one running
\* after the first was recorded.
C2_WitnessSequential ==
  /\ pc = "sequential"
  /\ Len(input_files) = 3
  /\ Len(results) = 1
  /\ task[2] = "running"

\* C3: when the conversion of an item fails or raises, the batch still returns
\* N results; the result of that item has success = false and its own
\* input_file; the success of every other result is what the encoder did for
\* that item alone, and no item is skipped.
C3_Isolation ==
  /\ (pc = "exit" /\ input_files # <<>>) => BatchReturned
  /\ BatchReturned =>
       /\ Len(results) = Len(input_files)
       /\ \A j \in DOMAIN results :
            /\ results[j].input_file = Str(input_files[j])
            /\ results[j].success = (enc[j] = "ok")
            /\ task[j] = "finished"
            /\ (enc[j] \in {"ok", "fail"} => ffmpegCalls[j] = 1)

\* C3 witness: a sequential batch whose first item raised and whose third
\* failed, with the second converted.
C3_Witness ==
  /\ BatchReturned
  /\ pc = "returned"
  /\ max_concurrent <= 1
  /\ Len(results) = 3
  /\ enc = <<"raise", "ok", "fail">>
  /\ results[2].success

\* C3 witness, concurrent branch: the item that ended first failed.
C3_WitnessConcurrent ==
  /\ BatchReturned
  /\ max_concurrent > 1
  /\ enc = <<"ok", "fail", "ok">>
  /\ completed = <<2, 1, 3>>

\* the indices of the failed results of a list
FailedAt(rs) == {i \in DOMAIN rs : ~rs[i].success}

\* the index of the k-th failed result of a list
KthFailed(rs, k) ==
  CHOOSE i \in FailedAt(rs) : Cardinality({j \in FailedAt(rs) : j < i}) = k - 1

\* C5: for a result list of S successes and F failures the statistics are
\* total = S + F, success = S, failed = F, and the "Failed conversions"
\* listing holds exactly the input_file of the F failed results, in list
\* order, and nothing when F = 0.
C5_StatsAndListing ==
  LET stats == calculate_conversion_stats(results)
      S == Cardinality(DOMAIN results \ FailedAt(results))
      F == Cardinality(FailedAt(results))
  IN  /\ stats = [total |-> S + F, success |-> S, failed |-> F]
      /\ BatchReturned =>
           /\ printed.success = S
           /\ printed.failed = F
           /\ Len(printed.failed_listing) = F
           /\ printed.failed_header = (F > 0)
           /\ \A k \in 1..F :
                printed.failed_listing[k] = results[KthFailed(results, k)].input_file

\* C5 witness: a printed summary of one success between two failures.
C5_Witness ==
  /\ BatchReturned
  /\ Len(results) = 3
  /\ ~results[1].success
  /\ results[2].success
  /\ ~results[3].success
  /\ Len(printed.failed_listing) = 2

\* C5 second case: a printed summary without any failure.
C5_WitnessNoFailure ==
  /\ BatchReturned
  /\ Len(results) = 2
  /\ FailedAt(results) = {}
  /\ printed.failed_listing = <<>>

\* the items whose ffmpeg run raised (the exception is caught in _convert)
EncoderFailed == {i \in DOMAIN task : task[i] = "finished" /\ enc[i] = "fail"}

\* C7 as stated: every encoder exception is turned into a result with
\* success = false, output_file = None and an error string naming the failure.
C7_AsStated ==
  \A i \in EncoderFailed :
    /\ taskResult[i].kind = "value"
    /\ ~taskResult[i].value.success
    /\ taskResult[i].value.output_file = None
    /\ taskResult[i].value.error # AbsentS

\* The part of C7 the code keeps: convert_single_file_functional never raises
\* for a failure of the encoder: the exception is caught and the call returns
\* a result with success = false and output_file = None; the result has no
\* error key.
C7_EncoderFailureIsAResult ==
  \A i \in EncoderFailed :
    /\ taskResult[i].kind = "value"
    /\ taskResult[i].value.input_file = Str(input_files[i])
    /\ ~taskResult[i].value.success
    /\ taskResult[i].value.output_file = None
    /\ taskResult[i].value.error = AbsentS
    /\ exit_code \in {-1, 0}

\* C7 witness: ffmpeg was run for an item and raised.
C7_Witness ==
  \E i \in EncoderFailed : ffmpegCalls[i] = 1

\* C9: when the target is not an alias of the registry, the result of an item
\* has success = false and output_file = None, the encoder is never run for
\* it, and every item of the batch still gets its own result.
C9_UnsupportedFormat ==
  (input_files # <<>> /\ output_format \notin Aliases) =>
    /\ \A i \in DOMAIN task :
         /\ ffmpegCalls[i] = 0
         /\ task[i] # "running"
         /\ task[i] = "finished" =>
              /\ taskResult[i].kind = "value"
              /\ ~taskResult[i].value.success
              /\ taskResult[i].value.output_file = None
    /\ BatchReturned =>
         /\ Len(results) = Len(input_files)
         /\ \A i \in DOMAIN results :
              /\ results[i].input_file = Str(input_files[i])
              /\ ~results[i].success
              /\ results[i].output_file = None

\* C9 witness: a batch of three files to an encoder format name that is no
\* alias has returned.
C9_Witness ==
  /\ BatchReturned
  /\ output_format = "matroska"
  /\ Len(results) = 3

\* C4 (as stated): once a batch command (convert over several files, a
\* playlist download) has printed its summary, every item has been attempted,
\* and the summary gives the number of successes, the number of failures and
\* the identity of each failed input.
C4_AsStated ==
  /\ (BatchReturned /\ caller = "main" /\ Len(input_files) > 1) =>
       /\ \A i \in DOMAIN task : task[i] = "finished"
       /\ printed.success = Cardinality(DOMAIN results \ FailedAt(results))
       /\ printed.failed = Cardinality(FailedAt(results))
       /\ Len(printed.failed_listing) = printed.failed
       /\ \A k \in 1..printed.failed :
            printed.failed_listing[k] = results[KthFailed(results, k)].input_file
  /\ (dlPrinted.kind # "none" /\ args.url.list) =>
       /\ \A i \in DOMAIN attempted : attempted[i]
       /\ dlPrinted.kind = "list"
       /\ dlPrinted.success + dlPrinted.failed = Len(remote)
       /\ Len(dlPrinted.failed_listing) = dlPrinted.failed

\* the dicts of the converter that exist in a state
ConversionOutcomes ==
  {results[i] : i \in DOMAIN results}
  \cup {taskResult[i].value : i \in {j \in DOMAIN taskResult : taskResult[j].kind = "value"}}

\* the dicts youtube_downloader has returned
DownloadResults ==
  IF dlResult.kind = "none" THEN {} ELSE {dlResult.items[i] : i \in DOMAIN dlResult.items}

\* the dicts media_downloader has returned
DownloadOutcomes ==
  IF outcome.kind = "none" THEN {} ELSE {outcome.items[i] : i \in DOMAIN outcome.items}

\* C6: every Outcome of a conversion or a download, one built from a caught
\* exception included, has no output path (None, or no such key) when success
\* is false, and a path when success is true.
C6_OutcomeShape ==
  /\ \A r \in ConversionOutcomes :
       /\ ~r.success => r.output_file = None
       /\ r.success => r.output_file \notin {None, Absent}
  /\ \A r \in DownloadResults :
       /\ ~r.success => r.file_path = None
       /\ r.success => r.file_path \notin {None, Absent}
  /\ \A o \in DownloadOutcomes :
       /\ ~o.success => ("file_path" \notin o.keys \/ o.file_path = None)
       /\ o.success => ("file_path" \in o.keys /\ o.file_path \notin {None, Absent})

\* C6 witness: after the batch conversion of a playlist, the list holds a
\* failed item and an item that was downloaded and converted.
C6_Witness ==
  /\ outcome.kind = "list"
  /\ results # <<>>
  /\ \E i, j \in DOMAIN outcome.items :
       /\ ~outcome.items[i].success
       /\ outcome.items[j].success
       /\ outcome.items[j].converted

\* C6 second case: the Outcome built from a caught exception of a download.
C6_WitnessException ==
  /\ outcome.kind = "dict"
  /\ outcome.items[1].keys = {"success", "error", "path", "format"}
  /\ ~outcome.items[1].success

\* a single download of the command line whose remote media source raised
RemoteRaised ==
  /\ entry = "cli"
  /\ config # NoConfig
  /\ ~args.url.list
  /\ attempted = <<TRUE>>
  /\ remote[1].kind = "raise"

UnsupportedSingleItemRun ==
  /\ entry = "cli"
  /\ \/ /\ args.command = "convert"
        /\ args.to \notin Aliases
        /\ Len(resolve_file_paths(args.path).files) = 1
     \/ /\ args.command = "download"
        /\ ~args.url.list
        /\ args.format # NoneS
        /\ args.format \notin Aliases

C10_WitnessConvert ==
  /\ UnsupportedSingleItemRun
  /\ args.command = "convert"
  /\ args.to = "xyz"
  /\ pc = "exit"
  /\ exit_code = 2

\* a convert whose pattern matches no file
NoMatch ==
  /\ args.command = "convert"
  /\ matched_files(args.path) = <<>>

\* C11: for the pattern of the run resolve_file_paths raises FileNotFoundError
\* exactly when nothing matched and never returns an empty list; a convert
\* whose pattern matches no file ends with a status other than 0 and has
\* created no output directory, run no encoder and printed no summary.
C11_NoMatchIsFatal ==
  /\ resolve_file_paths(args.path).raised <=> matched_files(args.path) = <<>>
  /\ ~resolve_file_paths(args.path).raised => resolve_file_paths(args.path).files # <<>>
  /\ NoMatch =>
       /\ pc \in {"parse", "convert", "exit"}
       /\ pc = "exit" => exit_code > 0
       /\ dirs = {}
       /\ ffmpegCalls = <<>>
       /\ results = <<>>
       /\ printed = NothingPrinted

\* C11 witness: convert(args) with a glob that matches nothing, directly or
\* recursively, has ended with status 1.
C11_Witness ==
  /\ NoMatch
  /\ args.path.star
  /\ args.to \in Aliases
  /\ pc = "exit"
  /\ exit_code = 1
  /\ dirs = {}

\* C11 second case: a plain path that does not exist.
C11_WitnessPlainPath ==
  /\ NoMatch
  /\ ~args.path.star
  /\ pc = "exit"
  /\ exit_code = 1

\* a download of the command line from a URL that is no URL of YouTube
NotYouTube ==
  /\ entry = "cli"
  /\ args.command = "download"
  /\ args.url.site # "youtube"

\* what failing fast leaves behind: no directory, no configuration, no call of
\* the remote media source, no conversion, no Outcome, and no normal end
FailedFast ==
  /\ pc \in {"parse", "download", "exit"}
  /\ pc = "exit" => exit_code > 0
  /\ dirs = {}
  /\ config = NoConfig
  /\ \A i \in DOMAIN attempted : ~attempted[i]
  /\ ffmpegCalls = <<>>
  /\ outcome.kind = "none"

\* C12 (as stated): a download from a URL that is not a YouTube URL fails
\* fast: it ends with a status other than 0 before a directory is created, the
\* remote media source is called or a download or conversion is started.
C12_AsStated == NotYouTube => FailedFast

\* The part of C12 the code keeps: a download from a URL in which neither
\* "youtube.com" nor "youtu.be" occurs fails fast.
C12_RejectedUrlFailsFast ==
  (entry = "cli" /\ args.command = "download" /\ ~args.url.youtube) => FailedFast

\* C12 witness: a download from a URL of another site has ended with status 1
\* and has left nothing behind.
C12_Witness ==
  /\ NotYouTube
  /\ ~args.url.youtube
  /\ pc = "exit"
  /\ exit_code = 1
  /\ FailedFast

\* C12, the failing case: a download from a URL of another site in which
\* "youtube.com" occurs has created its directory, called the remote media
\* source and ended with status 0.
C12_WitnessAccepted ==
  /\ NotYouTube
  /\ args.url.youtube
  /\ ~args.url.list
  /\ attempted = <<TRUE>>
  /\ dirs # {}
  /\ pc = "exit"
  /\ exit_code = 0

\* the files the downloads have delivered
DownloadedFiles == {r.file_path : r \in {x \in DownloadResults : x.success}}

\* the conversion of downloaded file f has reported success / failure
ConvertedOk(f) ==
  \E i \in DOMAIN results : results[i].success /\ Path(results[i].input_file) = Path(f)

ConversionFailed(f) ==
  \E i \in DOMAIN results : ~results[i].success /\ Path(results[i].input_file) = Path(f)

\* the downloads of a post-processing that has returned, by position
Processed ==
  IF outcome.kind = "none" \/ dlResult.kind = "none" THEN {} ELSE DOMAIN outcome.items

\* C13: in download post-processing a downloaded file leaves the disk only in
\* a step taken after the conversion of that file has reported success; when
\* its conversion failed, the Outcome of the download has the downloaded path
\* as file_path and converted = false.
C13_DeleteOnlyAfterSuccess ==
  /\ [][\A f \in DownloadedFiles : (f \in disk /\ f \notin disk') => ConvertedOk(f)]_vars
  /\ [](\A i \in Processed :
          (dlResult.items[i].success /\ ConversionFailed(dlResult.items[i].file_path)) =>
            /\ outcome.items[i].success
            /\ outcome.items[i].file_path = dlResult.items[i].file_path
            /\ ~outcome.items[i].converted
            /\ dlResult.items[i].file_path \in disk)

\* C13 witness: of two downloads of a playlist, one conversion succeeded and
\* its download is gone, the other failed and its download is still there.
C13_Witness ==
  /\ outcome.kind = "list"
  /\ \E i, j \in Processed :
       /\ ConvertedOk(dlResult.items[i].file_path)
       /\ dlResult.items[i].file_path \notin disk
       /\ ConversionFailed(dlResult.items[j].file_path)
       /\ dlResult.items[j].file_path \in disk
       /\ ~outcome.items[j].converted

\* C13 second case: a single download whose conversion failed.
C13_WitnessSingle ==
  /\ outcome.kind = "dict"
  /\ 1 \in Processed
  /\ ConversionFailed(dlResult.items[1].file_path)
  /\ ffmpegCalls = <<1>>
  /\ dlResult.items[1].file_path \in disk

\* C14 (as stated): a failure of the conversion that follows a successful
\* download (encoder error, unsupported target, downloaded file not resolved
\* as the converter's input) does not end the process, and the Outcome of the
\* download has success = true, converted = false and the downloaded path.
C14_AsStated ==
  /\ caller \in {"single", "playlist"} => ~(pc = "exit" /\ exit_code > 0)
  /\ \A i \in Processed :
       (dlResult.items[i].success /\ ConversionFailed(dlResult.items[i].file_path)) =>
         /\ outcome.items[i].success
         /\ ~outcome.items[i].converted
         /\ outcome.items[i].file_path = dlResult.items[i].file_path

\* The part of C14 the code keeps: when the converter has returned a failed
\* result for a download (encoder error, unsupported target), the process goes
\* on and the Outcome has success = true, converted = false and the downloaded
\* path.
C14_FailedResultIsRecovered ==
  \A i \in Processed :
    (dlResult.items[i].success /\ ConversionFailed(dlResult.items[i].file_path)) =>
      /\ outcome.items[i].success
      /\ ~outcome.items[i].converted
      /\ outcome.items[i].file_path = dlResult.items[i].file_path
      /\ exit_code \in {-1, 0}

\* C14, the failing case: convert_if_needed has called convert for a download
\* that succeeded, the file was not found, and the process has ended with
\* status 1 without an Outcome.
C14_WitnessExit ==
  /\ caller = "single"
  /\ dlResult.items[1].success
  /\ dlResult.items[1].file_path \notin disk
  /\ pc = "exit"
  /\ exit_code = 1
  /\ outcome.kind = "none"

\* C14, a recovered case: the target of a single download is no alias of the
\* converter, and the Outcome keeps the download.
C14_WitnessRecovered ==
  /\ outcome.kind = "dict"
  /\ 1 \in Processed
  /\ ConversionFailed(dlResult.items[1].file_path)
  /\ ffmpegCalls = <<0>>
  /\ outcome.items[1].success
  /\ ~outcome.items[1].converted

\* post-processing has decided what to convert
Decided ==
  /\ entry = "api"
  /\ dlResult.kind # "none"
  /\ pc \notin {"post_single", "post_playlist", "yt_playlist", "yt_parallel",
              "yt_done", "yt_parallel_done"}

\* downloaded file f has been handed to the converter
Submitted(f) ==
  \/ caller = "single" /\ dlResult.items[1].file_path = f
  \/ caller = "playlist" /\ \E i \in DOMAIN input_files : input_files[i] = Path(f)

\* the target the converter has been called with
SubmittedTarget == IF caller = "single" THEN args.to ELSE output_format

\* C15 (as stated): with an alias a of the video or audio table as requested
\* target and a downloaded file of extension e, post-processing calls the
\* converter exactly when e differs from a, and then with a target the
\* converter resolves to an encoder format; when e equals a, or there is no
\* target, the converter is not called and the Outcome keeps the download.
C15_AsStated ==
  Decided =>
    \A f \in DownloadedFiles :
      /\ args.format # NoneS => (Submitted(f) <=> Lower(f.ext) # Lower(args.format))
      /\ Submitted(f) => find_ffmpeg_format(SubmittedTarget) # NoneS
      /\ (config.output_format = NoneS \/ Lower(f.ext) = Lower(args.format)) =>
           ~Submitted(f)

\* What the code does instead: the converter is called exactly when e differs
\* from the encoder name of a (the extension itself when no --format is given
\* for audio), and it is called with that encoder name.
C15_ComparesWithEncoderName ==
  Decided =>
    \A f \in DownloadedFiles :
      /\ Submitted(f) <=>
           (config.output_format # NoneS /\ Lower(f.ext) # Lower(config.output_format))
      /\ Submitted(f) => SubmittedTarget = config.output_format

\* C15, the failing case: an m4a download with target alias m4a has been given
\* to the converter with the target ipod, which is no alias, and no encoder
\* has run.
C15_WitnessSameExtension ==
  /\ Decided
  /\ args.format = "m4a"
  /\ \E f \in DownloadedFiles : f.ext = "m4a" /\ Submitted(f)
  /\ SubmittedTarget = "ipod"
  /\ find_ffmpeg_format(SubmittedTarget) = NoneS
  /\ outcome.kind # "none"
  /\ \A i \in DOMAIN ffmpegCalls : ffmpegCalls[i] = 0

\* C15, a case that works: a webm download with target alias mp4 has been
\* converted.
C15_WitnessConverted ==
  /\ Decided
  /\ args.format = "mp4"
  /\ outcome.kind = "dict"
  /\ outcome.items[1].converted
  /\ dlResult.items[1].file_path.ext = "webm"

\* the downloaded files whose extension differs from the target format of the
\* configuration
Differing ==
  {f \in DownloadedFiles :
     config.output_format # NoneS /\ Lower(f.ext) # Lower(config.output_format)}

ConvertedOutput(f) ==
  LET i == CHOOSE j \in DOMAIN results :
             results[j].success /\ Path(results[j].input_file) = Path(f)
  IN  results[i].output_file

\* process_playlist_results has returned
PlaylistProcessed == Decided /\ dlResult.kind = "list" /\ outcome.kind = "list"

\* what C17 says of the i-th download result and the i-th Outcome
MappedBack(i) ==
  LET r == dlResult.items[i]
      o == outcome.items[i]
  IN  /\ o.success = r.success
      /\ "title" \in o.keys /\ o.title = r.metadata.title
      /\ r.success =>
           /\ o.converted <=> ConvertedOk(r.file_path)
           /\ o.file_path = IF ConvertedOk(r.file_path)
                              THEN ConvertedOutput(r.file_path)
                              ELSE r.file_path

\* C17 (as stated): process_playlist_results returns one Outcome per download
\* result, in the order of the download results; an Outcome has converted =
\* true and the converter's output as file_path exactly when the file of that
\* video was converted successfully; a failed download stays failed, and a
\* failed conversion leaves a successful download successful.
C17_AsStated ==
  PlaylistProcessed =>
    /\ Len(outcome.items) = Len(dlResult.items)
    /\ \A i \in DOMAIN dlResult.items : MappedBack(i)

\* The part of C17 the code keeps: the same, for download results whose
\* file_path is written in the normal form of pathlib.
C17_MappedBackForNormalPaths ==
  (PlaylistProcessed /\ config.normal) =>
    /\ Len(outcome.items) = Len(dlResult.items)
    /\ \A i \in DOMAIN dlResult.items : MappedBack(i)

\* C17, the failing case: the file of a video was converted successfully and
\* removed, and the Outcome of the video says converted = false and names the
\* removed file.
C17_WitnessLostConversion ==
  /\ PlaylistProcessed
  /\ ~config.normal
  /\ \E i \in DOMAIN dlResult.items :
       /\ dlResult.items[i].success
       /\ ConvertedOk(dlResult.items[i].file_path)
       /\ ~outcome.items[i].converted
       /\ outcome.items[i].file_path = dlResult.items[i].file_path
       /\ outcome.items[i].file_path \notin disk

\* C17, a case that works: two videos, the first converted, the second failed
\* to download.
C17_WitnessMapped ==
  /\ PlaylistProcessed
  /\ config.normal
  /\ Len(outcome.items) = 2
  /\ outcome.items[1].converted
  /\ outcome.items[1].file_path = ConvertedOutput(dlResult.items[1].file_path)
  /\ ~outcome.items[2].success

\* a download of a playlist: the command, or a call of one of its functions
PlaylistRun == args.command = "download" /\ args.url.list

\* every video of the playlist has been tried and has its dict in the list
DownloadsCompleted ==
  /\ dlResult.kind = "list"
  /\ Len(dlResult.items) = Len(remote)
  /\ \A i \in DOMAIN remote : attempted[i]

\* a conversion batch is running or has run
ConversionBegun == input_files # <<>> \/ task # <<>> \/ results # <<>>

C18_WitnessDownloading ==
  /\ PlaylistRun
  /\ pc = "yt_playlist"
  /\ Len(dlResult.items) = 1
  /\ Len(remote) = 2
  /\ dlResult.items[1].success
  /\ ~ConversionBegun

\* the titles of the returned list, in its order
ReturnedTitles == [k \in DOMAIN dlResult.items |-> dlResult.items[k].metadata.title]

\* C19 (as stated): download_playlist_videos_parallel / _audios_parallel
\* return one result per video of the playlist, in playlist order, whatever
\* the order in which the workers completed.
C19_AsStated ==
  pc = "yt_parallel_done" =>
    /\ Len(dlResult.items) = Len(remote)
    /\ \A i \in DOMAIN remote : ReturnedTitles[i] = remote[i].title

\* The part of C19 the code keeps: one result per video of the playlist.
C19_OneResultPerVideo ==
  pc = "yt_parallel_done" =>
    /\ Len(dlResult.items) = Len(remote)
    /\ \A i \in DOMAIN remote :
         Cardinality({k \in DOMAIN dlResult.items : ReturnedTitles[k] = remote[i].title}) = 1

\* C19, the failing case: the second video of a playlist completed first, and
\* the returned list has it first.
C19_WitnessCompletionOrder ==
  /\ pc = "yt_parallel_done"
  /\ Len(remote) = 2
  /\ ReturnedTitles = <<2, 1>>
  /\ \A k \in DOMAIN dlResult.items : sort_key(Len(remote), dlResult.items[k]) = 999

\* C20: in the playlist loop of youtube_downloader the k-th entry of the list
\* is the result of the k-th video; a video whose download raised is recorded
\* with success = false, file_path = None, its title and the text of the
\* error; the loop goes on after it, and the returned list has one entry per
\* video of the playlist, none for an empty playlist.
C20_LoopRecordsAndGoesOn ==
  pc \in {"yt_playlist", "yt_done"} =>
    /\ \A k \in DOMAIN dlResult.items :
         /\ attempted[k]
         /\ dlResult.items[k].metadata.title = remote[k].title
         /\ remote[k].kind = "raise" =>
              /\ ~dlResult.items[k].success
              /\ dlResult.items[k].file_path = None
              /\ dlResult.items[k].metadata.error = RemoteErrText
    /\ pc = "yt_done" =>
         /\ Len(dlResult.items) = Len(remote)
         /\ \A i \in DOMAIN remote : attempted[i]

\* C20 witness: the download of the first of two videos raised, the second
\* was downloaded, and the list of both has been returned.
C20_Witness ==
  /\ pc = "yt_done"
  /\ Len(remote) = 2
  /\ remote[1].kind = "raise"
  /\ ~dlResult.items[1].success
  /\ dlResult.items[2].success
  /\ dlResult.items[2].file_path \in disk

\* C20 second case: an empty playlist gives an empty list.
C20_WitnessEmpty ==
  /\ pc = "yt_done"
  /\ remote = <<>>
  /\ dlResult.items = <<>>

(***************************************************************************)
(* Claims about the format registry.                                       *)
(***************************************************************************)
\* get_format has returned the entries of all_formats for args.format
LookedUpAll == pc = "looked_up" /\ args.type = NoneS

\* the entries of the registry whose alias is the string
EntriesOfAlias(str) ==
  {i \in DOMAIN all_formats : all_formats[i].alias = str}

\* the entries of the registry whose encoder format name is the string
EntriesOfFormat(str) ==
  {i \in DOMAIN all_formats : all_formats[i].format = str}

\* C21 (as stated): for every entry e of all_formats, get_format of the alias
\* of e returns exactly the entry e and no other entry.
C21_AsStated ==
  LookedUpAll =>
    \A i \in EntriesOfAlias(args.format) : found = <<all_formats[i]>>

\* The part of C21 the code keeps: the list get_format returns for the alias
\* of an entry e holds e once, and so does the list for the encoder format
\* name of e; the list holds exactly the entries whose alias or format name is
\* the string, in registry order; a string that is neither (a differently
\* cased alias too) gives the empty list.
C21_LookupIncludesEntry ==
  LookedUpAll =>
    /\ \A i \in EntriesOfAlias(args.format) \cup EntriesOfFormat(args.format) :
         Cardinality({k \in DOMAIN found : found[k] = all_formats[i]}) = 1
    /\ Len(found) =
         Cardinality(EntriesOfAlias(args.format) \cup EntriesOfFormat(args.format))
    /\ \A k \in DOMAIN found :
         found[k].alias = args.format \/ found[k].format = args.format
    /\ (args.format \notin Aliases \cup FormatNames) => found = <<>>

\* C21, the failing case: the alias "ogg" is also the encoder format name of
\* three other entries, and the list for it begins with the entry of "ogv".
C21_WitnessSharedName ==
  /\ LookedUpAll
  /\ args.format = "ogg"
  /\ Len(found) = 4
  /\ found[1] = [alias |-> "ogv", format |-> "ogg"]
  /\ found[2] = [alias |-> "ogg", format |-> "ogg"]

\* C21 second case: an alias that is the format name of no other entry gives
\* its entry alone, and the same alias in upper case gives nothing.
C21_WitnessSingle ==
  /\ LookedUpAll
  /\ \/ args.format = "mp4" /\ found = <<[alias |-> "mp4", format |-> "mp4"]>>
     \/ args.format = "MP4" /\ found = <<>>

(***************************************************************************)
(* Claims about the files of a conversion.                                 *)
(***************************************************************************)
\* the path the job of item i writes: known while ffmpeg runs and after it
\* succeeded
WrittenPath(i) ==
  IF taskResult[i].kind = "config"
    THEN taskResult[i].value.output_path
    ELSE IF taskResult[i].kind = "value" /\ taskResult[i].value.success
      THEN taskResult[i].value.output_file
      ELSE None

\* C22 (as stated): any two jobs of a batch get distinct output paths, two
\* input files with the same base name from different directories included;
\* no two jobs ever write the same path.
C22_AsStated ==
  \A i, j \in DOMAIN task :
    (i < j /\ WrittenPath(i) # None /\ WrittenPath(j) # None) =>
      WrittenPath(i) # WrittenPath(j)

\* The part of C22 the code keeps: the paths of two jobs differ when the base
\* names of their inputs differ or the clock moved between their two readings,
\* which it did when the second began after the first one's ffmpeg run ended
\* (the sequential branch, and a second run of the command).
C22_DistinctByStemOrTime ==
  /\ \A i, j \in DOMAIN task :
       (i < j /\ WrittenPath(i) # None /\ WrittenPath(j) # None
              /\ WrittenPath(i) = WrittenPath(j)) =>
         /\ input_files[i].stem = input_files[j].stem
         /\ input_files[i] # input_files[j]
         /\ pc # "sequential"
         /\ max_concurrent > 1
  /\ \A i \in DOMAIN task :
       WrittenPath(i) # None =>
         /\ WrittenPath(i).dir = output_dir
         /\ WrittenPath(i).stem = input_files[i].stem
         /\ WrittenPath(i).ext = output_format
         /\ WrittenPath(i).ts <= now

\* C22, the failing case: two files of one concurrent batch have the same base
\* name in different directories, their timestamps were read within one tick
\* of the clock, and both conversions succeeded: the two results name one
\* path, and one output file is there.
C22_WitnessCollision ==
  /\ BatchReturned
  /\ max_concurrent > 1
  /\ Len(results) = 2
  /\ input_files[1] # input_files[2]
  /\ results[1].success /\ results[2].success
  /\ results[1].output_file = results[2].output_file
  /\ results[1].output_file \in disk

\* C22 second case: the same two files in the sequential branch get two paths.
C22_WitnessSequential ==
  /\ BatchReturned
  /\ max_concurrent <= 1
  /\ Len(results) = 2
  /\ input_files[1].stem = input_files[2].stem
  /\ results[1].success /\ results[2].success
  /\ results[1].output_file # results[2].output_file

\* convert_files_functional is running or has returned to its caller, whose
\* next statement has not run yet
InConverter == pc \in {"sequential", "gather", "returned"}

\* the files on the disk, by their normalised paths
OnDisk == {Path(f) : f \in disk}

\* C23: convert_files_functional never deletes, renames or overwrites an input
\* file: while it runs and when it has returned, every input file is still on
\* the disk, whether its conversion succeeded or failed, no job writes to the
\* path of a file that was there before, and in a run of the convert command
\* every file the directory listing had is still there at the end.
C23_InputsUntouched ==
  /\ InConverter =>
       /\ \A i \in DOMAIN input_files : \E f \in disk : Path(f) = input_files[i]
       /\ \A i \in DOMAIN task :
            WrittenPath(i) # None =>
              /\ \A j \in DOMAIN input_files : WrittenPath(i) # input_files[j]
              /\ WrittenPath(i).ts > 0
  /\ (args.command = "convert" /\ caller = "main") =>
       \A i \in 1..MaxFiles : InputFile(i) \in disk

\* C23 witness: a run of the convert command over three files has ended; one
\* conversion succeeded, one failed in ffmpeg, one raised, and the three
\* inputs and the one output are on the disk.
C23_Witness ==
  /\ pc = "exit"
  /\ exit_code = 0
  /\ args.command = "convert"
  /\ Len(input_files) = 3
  /\ enc = <<"ok", "fail", "raise">>
  /\ \A i \in DOMAIN input_files : input_files[i] \in disk
  /\ results[1].output_file \in disk
  /\ Cardinality(disk) = MaxFiles + 1

\* C23 second case: the batch of a playlist has returned, and the downloads it
\* converted are still there (its caller removes them afterwards).
C23_WitnessPlaylist ==
  /\ pc = "returned"
  /\ caller = "playlist"
  /\ Len(results) = 2
  /\ \A i \in DOMAIN results : results[i].success
  /\ \A i \in DOMAIN input_files : input_files[i] \in OnDisk

(***************************************************************************)
(* Claims about the two branches of process_conversion_batch.              *)
(***************************************************************************)
\* what one call of convert_with_feedback returns for a file, given what the
\* encoder call does and the reading of the clock
convert_with_feedback(input_file, fmt, dir, e, timestamp) ==
  LET conf == create_conversion_config(input_file, fmt, dir, timestamp)
  IN  IF conf.ffmpeg_format = NoneS
        THEN single_result(conf, FALSE)
        ELSE IF e = "raise"
          THEN exception_result(input_file, fmt, ExcText)
          ELSE single_result(conf, e = "ok")

RECURSIVE sequential_results(_, _, _, _, _)
\* the loop of the sequential branch as a function: the results of
\* convert_with_feedback for the files, one after the other
sequential_results(files, fmt, dir, encs, timestamp) ==
  IF files = <<>>
    THEN <<>>
    ELSE <<convert_with_feedback(Head(files), fmt, dir, Head(encs), timestamp)>>
         \o sequential_results(Tail(files), fmt, dir, Tail(encs), timestamp)

\* a result without the timestamp of its output path
Untimed(r) ==
  [r EXCEPT !.output_file = IF @ = None THEN None ELSE [@ EXCEPT !.ts = 0]]

\* C24: for the same input list and the same per-item encoder results,
\* process_conversion_batch returns the list the sequential loop gives (same
\* length, same order, same input_file, success and error, output paths equal
\* up to the timestamp), for every max_concurrent and in both branches, also
\* when an item raises.
C24_SameAsSequential ==
  BatchReturned =>
    /\ Len(results) = Len(input_files)
    /\ [i \in DOMAIN results |-> Untimed(results[i])] =
         sequential_results(input_files, output_format, output_dir, enc, 0)

\* C24 witness: the semaphore branch has returned for three files of which the
\* first raised and the last failed, the conversions having ended in another
\* order than they were given.
C24_Witness ==
  /\ BatchReturned
  /\ max_concurrent = 2
  /\ Len(input_files) = 3
  /\ enc = <<"raise", "ok", "fail">>
  /\ completed = <<1, 3, 2>>
  /\ results[1].error = ExcText

\* C24 second case: the sequential branch has returned for the same files and
\* the same encoder results.
C24_WitnessSequential ==
  /\ BatchReturned
  /\ max_concurrent \in {0, 1}
  /\ Len(input_files) = 3
  /\ enc = <<"raise", "ok", "fail">>
  /\ completed = <<1, 2, 3>>
  /\ results[1].error = ExcText

(***************************************************************************)
(* Claims about the scheduling of the semaphore branch.                    *)
(***************************************************************************)
\* the items whose conversion has not been started
Queued == {i \in DOMAIN task : task[i] = "pending"}

\* the semaphore branch has a free slot while a file is queued
IdleSlot ==
  /\ pc = "gather"
  /\ Cardinality(InFlight) < max_concurrent
  /\ Queued # {}

\* C25: in the semaphore branch the free slots are max_concurrent less the
\* conversions in flight, so the end of a conversion, success or failure,
\* frees one; whenever fewer than max_concurrent conversions are in flight and
\* a file is queued, a queued file can take a slot at once, without the end of
\* another conversion, and a queued file is started: the slot does not stay
\* idle for ever, it stops being idle only by the start of a queued file, and
\* no file comes back into the queue.
C25_NoIdleSlot ==
  /\ [](pc = "gather" => semaphore = max_concurrent - Cardinality(InFlight))
  /\ [](IdleSlot => \E i \in Queued : Acquire(i))
  /\ [][pc = "gather" => Queued' \subseteq Queued]_vars
  /\ [][(IdleSlot /\ ~IdleSlot') => Queued' # Queued]_vars
  /\ IdleSlot ~> ~IdleSlot

\* C25 witness: a conversion has failed while a second one runs and a third
\* file is queued; a slot is free.
C25_Witness ==
  /\ IdleSlot
  /\ max_concurrent = 2
  /\ Len(input_files) = 3
  /\ completed # <<>>
  /\ enc[completed[1]] = "fail"
  /\ Cardinality(InFlight) = 1
  /\ Cardinality(Queued) = 1

\* how often item i is in the list of ended conversions
TimesCompleted(i) == Cardinality({k \in DOMAIN completed : completed[k] = i})

\* C26: within one process_conversion_batch call the encoder is invoked at
\* most once per file, never again after a failure; each file gets exactly
\* one result, which is the one the returned list has at its index; and a
\* result, once created, is not modified.
C26_ExactlyOnce ==
  /\ [](\A i \in DOMAIN task :
          /\ ffmpegCalls[i] <= 1
          /\ (enc[i] \in {"ok", "fail"} => ffmpegCalls[i] = 1)
          /\ TimesCompleted(i) = (IF task[i] = "finished" THEN 1 ELSE 0)
          /\ (taskResult[i].kind = "value") = (task[i] = "finished"))
  /\ [](BatchReturned =>
          /\ Len(results) = Len(input_files)
          /\ \A i \in DOMAIN results : results[i] = taskResult[i].value)
  /\ [][/\ \A i \in DOMAIN task :
             /\ ffmpegCalls'[i] >= ffmpegCalls[i]
             /\ task[i] = "finished" =>
                  /\ task'[i] = "finished"
                  /\ taskResult'[i] = taskResult[i]
                  /\ ffmpegCalls'[i] = ffmpegCalls[i]
        /\ \A k \in DOMAIN results :
             /\ k \in DOMAIN results'
             /\ results'[k] = results[k]]_vars

\* C26 witness: a batch of three files has returned; the ffmpeg run of the
\* first file failed and was not repeated, the second call raised before
\* ffmpeg ran, the third succeeded.
C26_Witness ==
  /\ BatchReturned
  /\ Len(results) = 3
  /\ enc = <<"fail", "raise", "ok">>
  /\ ffmpegCalls = <<1, 0, 1>>
  /\ ~results[1].success
  /\ results[3].success

\* C26 second case: the sequential loop has recorded a failed first file and
\* runs the second.
C26_WitnessSequential ==
  /\ pc = "sequential"
  /\ Len(results) = 1
  /\ ~results[1].success
  /\ ffmpegCalls[1] = 1
  /\ task[2] = "running"

\* C27: in the semaphore branch an item whose encoder call never completes
\* stays in flight and holds one slot for ever; the other items run in the
\* remaining max_concurrent - 1 slots, and every one of them is started and
\* completes; the batch call does not return, and neither a result list nor
\* a summary is produced.
C27_StuckItem ==
  /\ [](Hung # {} =>
          /\ pc = "gather"
          /\ max_concurrent >= 2
          /\ Hung \subseteq InFlight
          /\ semaphore = max_concurrent - Cardinality(InFlight)
          /\ Cardinality(InFlight \ Hung) <= max_concurrent - 1
          /\ ~BatchReturned
          /\ results = <<>>
          /\ printed = NothingPrinted
          /\ exit_code = -1)
  /\ [][Hung # {} => Hung' = Hung]_vars
  /\ (Hung # {}) ~> (\A j \in DOMAIN task \ Hung : task[j] = "finished")

\* C27 witness: the ffmpeg run of the first of three files hangs; with two
\* slots the two other files were converted one after the other, and the call
\* has not returned.
C27_Witness ==
  /\ pc = "gather"
  /\ max_concurrent = 2
  /\ Hung = {1}
  /\ Len(input_files) = 3
  /\ completed = <<2, 3>>
  /\ taskResult[2].value.success
  /\ InFlight = {1}
  /\ semaphore = 1
  /\ results = <<>>
  /\ ~printed.complete

\* C28: when every encoder call returns or raises in the end, the batch call
\* returns, for every number of files and every max_concurrent; at its return
\* no conversion is in flight, no file is queued, and the semaphore has all
\* its slots again; in the semaphore branch the free slots are always
\* max_concurrent less the conversions in flight, whether the items before
\* succeeded, failed or raised.
C28_TerminatesWithSlotsReleased ==
  /\ <>BatchReturned
  /\ [](BatchReturned =>
          /\ InFlight = {}
          /\ Queued = {}
          /\ \A i \in DOMAIN task : task[i] = "finished"
          /\ semaphore = (IF UseSequential(Len(input_files), max_concurrent)
                            THEN 0 ELSE max_concurrent))
  /\ [](pc = "gather" =>
          /\ semaphore = max_concurrent - Cardinality(InFlight)
          /\ semaphore >= 0)

\* C28 witness: the semaphore branch has returned after three items of which
\* one failed in ffmpeg and one raised, and both slots are free.
C28_Witness ==
  /\ BatchReturned
  /\ pc = "returned"
  /\ max_concurrent = 2
  /\ Len(input_files) = 3
  /\ enc = <<"fail", "raise", "ok">>
  /\ semaphore = 2
  /\ InFlight = {}

\* C28 second case: a batch for a target the registry does not know has
\* returned, every item having ended without an encoder call.
C28_WitnessUnsupported ==
  /\ BatchReturned
  /\ output_format = "xyz"
  /\ max_concurrent = 2
  /\ Len(results) = 3
  /\ semaphore = 2

(***************************************************************************)
(* Claims about the files of a download.                                   *)
(***************************************************************************)
\* post-processing of a download has returned its Outcome(s)
PostProcessed ==
  /\ pc \in {"dl_done", "exit"}
  /\ outcome.kind # "none"
  /\ dlResult.kind # "none"

\* the downloaded files the clean-up after a conversion has removed
CleanedUp ==
  IF caller = "playlist"
    THEN removed_after_conversion(
           files_to_convert(collect_downloaded_files(dlResult.items), config.output_format),
           results)
    ELSE IF caller = "single" /\ results # <<>> /\ results[1].success
      THEN {dlResult.items[1].file_path}
      ELSE {}

\* the Outcomes with success = true
SuccessfulOutcomes == {o \in DownloadOutcomes : o.success}

\* the download result of the single flow named a file that was not on the
\* disk when post-processing began (nothing was converted, nothing is there)
NeverOnDisk == caller = "main" /\ dlResult.kind = "dict" /\ disk = {}

\* C29 (as stated): after post-processing, the file_path of every Outcome with
\* success = true names a file that is on the disk, and no such Outcome names
\* a file the clean-up removed.
C29_AsStated ==
  PostProcessed =>
    \A o \in SuccessfulOutcomes :
      /\ o.file_path \notin CleanedUp
      /\ o.file_path \in disk \/ NeverOnDisk

\* The part of C29 the code keeps: the same, for the single download, and for
\* a playlist whose file paths are written in the normal form of pathlib.
C29_FileOnDiskForNormalPaths ==
  (PostProcessed /\ config.normal) =>
    \A o \in SuccessfulOutcomes :
      /\ o.file_path \notin CleanedUp
      /\ o.file_path \in disk \/ NeverOnDisk

\* C29, the failing case: a playlist of two videos was post-processed, the
\* file of a video was converted and then removed, and the Outcome of that
\* video has success = true and names the removed file.
C29_WitnessRemovedFileNamed ==
  /\ PostProcessed
  /\ caller = "playlist"
  /\ Len(outcome.items) = 2
  /\ \E k \in DOMAIN outcome.items :
       /\ outcome.items[k].success
       /\ outcome.items[k].file_path \in CleanedUp
       /\ outcome.items[k].file_path \notin disk
       /\ \E i \in DOMAIN results : results[i].success /\ results[i].output_file \in disk

\* C29, a case that works: a single download was converted, the download was
\* removed and the Outcome names the converted file, which is there.
C29_WitnessSingleConverted ==
  /\ PostProcessed
  /\ caller = "single"
  /\ outcome.items[1].success
  /\ outcome.items[1].converted
  /\ outcome.items[1].file_path \in disk
  /\ dlResult.items[1].file_path \in CleanedUp
  /\ dlResult.items[1].file_path \notin disk

\* C30 (as stated): for every Outcome with success = true of a download flow,
\* the file named by file_path lies in the directory of the Outcome's path
\* field, for unconverted files, for files converted after a single download
\* and for files converted in playlist post-processing.
C30_AsStated ==
  PostProcessed =>
    \A o \in SuccessfulOutcomes : o.file_path.dir = o.path

\* The part of C30 the code keeps: the file lies in the directory of the path
\* field when it was not converted, and when it was converted after a single
\* download; a file converted in playlist post-processing lies in
\* <cwd>/convert.
C30_InsideUnlessPlaylistConverted ==
  PostProcessed =>
    \A o \in SuccessfulOutcomes :
      IF o.converted /\ caller = "playlist"
        THEN o.file_path.dir = ensure_output_directory(NoneS)
        ELSE o.file_path.dir = o.path

\* C30, the failing case: a video of a playlist was converted; its Outcome
\* reports the playlist folder as path, and its file_path, which is on the
\* disk, lies in <cwd>/convert.
C30_WitnessConvertDirectory ==
  /\ PostProcessed
  /\ caller = "playlist"
  /\ config.normal
  /\ \E k \in DOMAIN outcome.items :
       /\ outcome.items[k].success
       /\ outcome.items[k].converted
       /\ outcome.items[k].file_path \in disk
       /\ outcome.items[k].file_path.dir = "cwd/convert"
       /\ outcome.items[k].path = config.output_path
       /\ outcome.items[k].path # "cwd/convert"

\* C30, a case that works: a single download was converted into the directory
\* it was downloaded to.
C30_WitnessSingle ==
  /\ PostProcessed
  /\ caller = "single"
  /\ outcome.items[1].success
  /\ outcome.items[1].converted
  /\ outcome.items[1].file_path.dir = outcome.items[1].path
  /\ output_dir = config.output_path

====
